---- MODULE Spec2Model ----
(***************************************************************************)
(* Dynamic port knocking server (src/Server/pks): the sequence generator   *)
(* and its filter, the permission engine, and the command handlers with    *)
(* the periodic rotation thread.                                           *)
(***************************************************************************)
EXTENDS Integers, Sequences, FiniteSets, TLC

\* An optional value: << >> is Python's None, <<v>> is the value v.
None == << >>
Some(v) == <<v>>

(***************************************************************************)
(* Bounds of the model.                                                    *)
(***************************************************************************)
\* First acceptable port of the small configurations.
MinPort == 2
\* The small port ranges are MinPort .. MinPort + w for w in 0 .. MaxWidth.
MaxWidth == 2
\* Largest sequence length asked of generate_new_sequence.
MaxN == 2
\* Largest integer seed passed to generate_new_sequence.
MaxSeed == 2
\* Most threads running _periodic_sequence_update at one time.
MaxThreads == 2
\* The updates Telegram is sent while the bot runs.
MaxUpdates == 3
\* A hashed candidate lies up to MaxOver above the last acceptable port
\* (or at twice the last port, where the modulo of the wrap comes to 0).
MaxOver == 3

(***************************************************************************)
(* pks/config.py is not part of the sources: the configuration is a value  *)
(* chosen when the process starts and never written afterwards.            *)
(* acceptable_port_range is the contiguous range first .. last.            *)
(***************************************************************************)
VARIABLES Config

VARIABLES
    permissions,  \* the "permissions" column of db/permissions.db:
                  \* user id -> list of group names
    perm_call,    \* the last call made on the Permissions object, with the
                  \* table it found
    undone        \* the table before the last add_user_to_group, and whether
                  \* the call after it removed the same user from that group

permVars == <<permissions, perm_call, undone>>

VARIABLES
    channels,         \* the "channels" column of db/channels.db: chat id -> active
    running,          \* Commands.running
    commands_user_id, \* Commands.user_id
    sequence_thread,  \* Commands._sequence_thread: None or the thread started last
    stop_event,       \* Commands._sequence_thread_stop_event
    roster,           \* Commands._sequence_thread_user_ids
    threads,          \* the threads running _periodic_sequence_update
    main_pc,          \* where the main thread is: "poll" (between two updates),
                      \* "generate" (commands.py:99), "join" (commands.py:187),
                      \* "exited" (SystemExit), "crashed" (uncaught exception)
    frame,            \* chat id and command of the update being processed
    reply,            \* what the step just taken sent back to the chat of its
                      \* update (__init__.py:126-127), if anything
    requests,         \* the callers of the /generate commands handled in a row
    handled,          \* the update the main thread is handling or, between two
                      \* updates, the one the step just taken handled, with the
                      \* state process() found
    actor,            \* who took the last step: 0 the main thread, t thread t
    effects           \* what the step just taken did outside the process, in
                      \* order: the calls of systemctl, the writing of the
                      \* configuration of knockd, the messages sent to users

srvVars == <<channels, running, commands_user_id, sequence_thread, stop_event, roster,
             threads, main_pc, frame, reply, requests, handled, actor, effects>>

VARIABLES
    chan_call,    \* the last call made on the Channels object, with the table
                  \* it found and what it returned
    chan_hist     \* for each chat, whether Channels.add was ever called for it
                  \* and the last call of add or disable that named it

chanVars == <<chan_call, chan_hist>>

VARIABLES
    disk,         \* what the file of a shelf holds: column -> container
    unsynced,     \* the columns assigned through the open shelf and not yet
                  \* written to the file by sync()
    store_call    \* the last call made on the Database object, with the
                  \* columns as they were read before it

storeVars == <<disk, unsynced, store_call>>

VARIABLES
    offset,       \* the local variable offset of PKS.main
    all_updates,  \* what is left of the batch the for loop of PKS.main is in
    inbox,        \* the updates Telegram holds for the bot, oldest first
    arrived,      \* how many updates Telegram has been sent: the last update_id
    delivered,    \* the update_id of each update given to process, in order
    seen          \* the update_id of the update the for loop took last

mainVars == <<offset, all_updates, inbox, arrived, delivered, seen>>

VARIABLES
    knockd,       \* the daemon outside the process: whether it is up, the
                  \* sequence in its configuration file, and whether a call of
                  \* systemctl has failed so far
    local_seq,    \* the local variable seq of each thread in its for loop
    notified      \* the sequence of the last "New sequence: ..." message sent

svcVars == <<knockd, local_seq, notified>>

auxVars == <<chanVars, storeVars, mainVars, svcVars>>

\* The scenario of the specification, section 8.
ScenarioPorts ==
    [first |-> 1000, last |-> 1010, ports_blacklist |-> {1005, 1006}]

SmallPorts ==
    { [first |-> MinPort, last |-> MinPort + w, ports_blacklist |-> b] :
        w \in 0..MaxWidth, b \in SUBSET (MinPort..(MinPort + MaxWidth)) }

PortConfigs ==
    { c \in SmallPorts : c.ports_blacklist \subseteq c.first..c.last }
        \cup {ScenarioPorts}

\* The users' settings of the configuration with nothing configured.
NoUserLists ==
    [telegram_user_whitelist |-> {}, telegram_user_blacklist |-> {},
     telegram_user_admin_list |-> {}]

first_acceptable_port == Config.first
last_acceptable_port == Config.last

(***************************************************************************)
(* Core.generate_new_sequence and Utils.filter_port_list                   *)
(***************************************************************************)
VARIABLES
    gen_pc,      \* "idle", "filter" (inside filter_port_list), "returned"
    gen_args,    \* [num, seed] of the call
    candidates,  \* port_list as generate_new_sequence passed it to the filter
    port_list,   \* the list the filter rewrites in place and returns
    fi,          \* position of the for loop of filter_port_list (1-based)
    port,        \* the local variable port of filter_port_list
    turn,        \* parity of the turns of the while loop taken so far: a turn
                 \* that computes the port it started from is still a step
    previous,    \* what the previous call with the same arguments returned
    hash_of      \* the sha256 values computed so far, by hashed integer

genVars == <<gen_pc, gen_args, candidates, port_list, fi, port, turn, previous, hash_of>>

Seeds == {None} \cup {Some(s) : s \in 0..MaxSeed}

\* The integers sha256 may give: below, inside and above the range, and the
\* multiples of the last port.  sha256 is a fixed function nobody can
\* predict: its value for an argument is chosen when the argument is first
\* hashed, and is the same ever after (hash_of).
HashValues ==
    ((first_acceptable_port - 1)..(last_acceptable_port + MaxOver))
        \cup {2 * last_acceptable_port, 2 * last_acceptable_port + 1}

\* The loop condition without its blacklist test.
UnacceptableRangeOnly(p) ==
    p \notin first_acceptable_port..last_acceptable_port

\* utils.py:62, the condition of the while loop.
Unacceptable(p) ==
    \/ p \in Config.ports_blacklist
    \/ p \notin first_acceptable_port..last_acceptable_port

\* The loop body probing every second port.
NextCandidateSkipping(p) ==
    IF p + 2 > last_acceptable_port
    THEN ((p + 2) % last_acceptable_port) + first_acceptable_port
    ELSE p + 2

\* utils.py:63-65, the body of the while loop.
NextCandidate(p) ==
    IF p + 1 > last_acceptable_port
    THEN ((p + 1) % last_acceptable_port) + first_acceptable_port
    ELSE p + 1

\* core.py:23, "if seed:" is Python truthiness: None and 0 are false.
SeedGiven(seed) == seed # None /\ seed[1] # 0

\* core.py:23-42: builds the candidates and enters filter_port_list.
GenStart(num, seed) ==
    /\ gen_args' = [num |-> num, seed |-> seed]
    /\ IF SeedGiven(seed)
       THEN \E h \in [{i + seed[1] : i \in 0..(num - 1)} -> HashValues] :
              /\ \A x \in DOMAIN h \cap DOMAIN hash_of : h[x] = hash_of[x]
              /\ hash_of' = h @@ hash_of
              /\ candidates' = [i \in 1..num |-> h[(i - 1) + seed[1]]]
       ELSE /\ \E r \in [1..num -> first_acceptable_port..last_acceptable_port] :
                 candidates' = r
            /\ hash_of' = hash_of
    /\ port_list' = candidates'
    /\ fi' = 1
    /\ turn' = 0
    /\ port' = IF num >= 1 THEN candidates'[1] ELSE 0
    /\ gen_pc' = "filter"

GenCall(num, seed) ==
    /\ gen_pc = "idle"
    /\ GenStart(num, seed)
    /\ previous' = previous
    /\ UNCHANGED <<Config, permVars, srvVars, auxVars>>

\* A second call with the arguments of the one that just returned.
GenRepeat ==
    /\ gen_pc = "returned"
    /\ previous' = Some(port_list)
    /\ GenStart(gen_args.num, gen_args.seed)
    /\ UNCHANGED <<Config, permVars, srvVars, auxVars>>

\* utils.py:62-66, one turn of the while loop.
FilterProbe ==
    /\ gen_pc = "filter"
    /\ fi <= Len(port_list)
    /\ Unacceptable(port)
    /\ port' = NextCandidate(port)
    /\ port_list' = [port_list EXCEPT ![fi] = NextCandidate(port)]
    /\ turn' = 1 - turn
    /\ UNCHANGED <<gen_pc, gen_args, candidates, fi, previous, hash_of, Config, permVars, srvVars, auxVars>>

\* utils.py:61-62, the while loop ends and the for loop takes the next port.
FilterAccept ==
    /\ gen_pc = "filter"
    /\ fi <= Len(port_list)
    /\ ~Unacceptable(port)
    /\ fi' = fi + 1
    /\ port' = IF fi + 1 <= Len(port_list) THEN port_list[fi + 1] ELSE port
    /\ UNCHANGED <<gen_pc, gen_args, candidates, port_list, turn, previous, hash_of, Config, permVars, srvVars, auxVars>>

\* utils.py:67 and core.py:44, the list is returned.
FilterReturn ==
    /\ gen_pc = "filter"
    /\ fi > Len(port_list)
    /\ gen_pc' = "returned"
    /\ UNCHANGED <<gen_args, candidates, port_list, fi, port, turn, previous, hash_of, Config, permVars, srvVars, auxVars>>

filter_port_list == FilterProbe \/ FilterAccept \/ FilterReturn

GenIdle ==
    /\ gen_pc = "idle"
    /\ gen_args = [num |-> 0, seed |-> None]
    /\ candidates = << >>
    /\ port_list = << >>
    /\ fi = 1
    /\ port = 0
    /\ turn = 0
    /\ previous = None
    /\ hash_of = << >>

(***************************************************************************)
(* Permissions and PermissionsDatabase (pks/permissions.py)                *)
(***************************************************************************)
\* Telegram ids, as the strings the permission table is keyed by
\* ("1" is the system account).
UserIds == {"1", "2", "3"}

\* permissions.py:8-12
permission_sets == <<"manage_sequences", "modify_bot_behaviour", "admin_access">>

\* permissions.py:15-20
permission_groups ==
    << [group |-> "guest", perms |-> << >>],
       [group |-> "member", perms |-> <<"manage_sequences">>],
       [group |-> "manager", perms |-> <<"manage_sequences", "modify_bot_behaviour">>],
       [group |-> "admin",
        perms |-> <<"manage_sequences", "modify_bot_behaviour", "admin_access">>] >>

Range(seq) == { seq[i] : i \in 1..Len(seq) }

\* permissions.py:51-53
get_valid_groups == [i \in 1..Len(permission_groups) |-> permission_groups[i].group]

\* The test that takes any name for a group.
is_group_valid_any(group) == TRUE

\* permissions.py:55-57
is_group_valid(group) == group \in Range(get_valid_groups)

\* database.py:45-49, on the permissions column
key_exists(db, key) == key \in DOMAIN db

\* permissions.py:36-38
user_exists(db, user_id) == key_exists(db, user_id)

\* permissions.py:148-160
list_groups(db, user_id) ==
    IF key_exists(db, user_id) THEN db[user_id] ELSE << >>

\* database.py:51-57 (insert_dict) and 66-72 (update): the column is read,
\* the key is set in the copy, the copy replaces the column.
update(db, key, value) ==
    [k \in DOMAIN db \cup {key} |-> IF k = key THEN value ELSE db[k]]

\* permissions.py:162-169
create_user(db, user_id) == update(db, user_id, << >>)

\* list(dict.fromkeys(groups)): the first occurrence of each name, in order.
RECURSIVE fromkeys(_)
fromkeys(groups) ==
    IF groups = << >> THEN << >>
    ELSE LET front == fromkeys(SubSeq(groups, 1, Len(groups) - 1))
             last == groups[Len(groups)]
         IN  IF last \in Range(front) THEN front ELSE Append(front, last)

\* The group appended without the removal of duplicates.
db_add_user_to_group_appending(db, user_id, group) ==
    update(db, user_id, Append(list_groups(db, user_id), group))

\* permissions.py:171-187
db_add_user_to_group(db, user_id, group) ==
    update(db, user_id, fromkeys(Append(list_groups(db, user_id), group)))

\* add_user_to_group that keeps no group the user already had.
add_user_to_group_replacing(db, user_id, group) ==
    IF ~is_group_valid(group) THEN db ELSE update(db, user_id, <<group>>)

\* permissions.py:64-72
add_user_to_group(db, user_id, group) ==
    IF ~is_group_valid(group) THEN db
    ELSE db_add_user_to_group(
             IF ~user_exists(db, user_id) THEN create_user(db, user_id) ELSE db,
             user_id, group)

\* permissions.py:189-202: dict.pop(group) raises KeyError when the user is
\* not in the group (an unknown user is in none); the table is then not
\* written.
db_remove_user_from_group(db, user_id, group) ==
    LET groups == fromkeys(list_groups(db, user_id))
    IN  IF group \notin Range(groups)
        THEN [db |-> db, raised |-> TRUE]
        ELSE [db |-> update(db, user_id, SelectSeq(groups, LAMBDA g : g # group)),
              raised |-> FALSE]

\* permissions.py:74-79
remove_user_from_group(db, user_id, group) ==
    IF ~is_group_valid(group) THEN [db |-> db, raised |-> FALSE]
    ELSE db_remove_user_from_group(db, user_id, group)

\* permissions.py:81-93: "none", then the permissions of each group of the
\* user, in the order of permission_groups.
RECURSIVE groups_permissions(_, _)
groups_permissions(u_groups, n) ==
    IF n = 0 THEN <<"none">>
    ELSE groups_permissions(u_groups, n - 1) \o
            (IF permission_groups[n].group \in Range(u_groups)
             THEN permission_groups[n].perms ELSE << >>)

\* get_groups_permissions starting from a list that already holds a permission.
get_groups_permissions_preset(db, user_id) ==
    <<"manage_sequences">> \o
        groups_permissions(list_groups(db, user_id), Len(permission_groups))

get_groups_permissions(db, user_id) ==
    groups_permissions(list_groups(db, user_id), Len(permission_groups))

\* is_user_allowed without its deny-list test.
is_user_allowed_no_blacklist(db, user_id, needed_permissions) ==
    /\ ~(/\ Cardinality(Config.telegram_user_whitelist) > 0
         /\ user_id \notin Config.telegram_user_whitelist)
    /\ \A i \in 1..Len(needed_permissions) :
          needed_permissions[i] \in Range(get_groups_permissions(db, user_id))

\* is_user_allowed that is content with any one of the needed permissions.
is_user_allowed_any(db, user_id, needed_permissions) ==
    /\ ~(/\ Cardinality(Config.telegram_user_whitelist) > 0
         /\ user_id \notin Config.telegram_user_whitelist)
    /\ user_id \notin Config.telegram_user_blacklist
    /\ \/ needed_permissions = << >>
       \/ \E i \in 1..Len(needed_permissions) :
             needed_permissions[i] \in Range(get_groups_permissions(db, user_id))

\* permissions.py:95-121
is_user_allowed(db, user_id, needed_permissions) ==
    IF /\ Cardinality(Config.telegram_user_whitelist) > 0
       /\ user_id \notin Config.telegram_user_whitelist
    THEN FALSE
    ELSE IF user_id \in Config.telegram_user_blacklist
    THEN FALSE
    ELSE IF ~(\A i \in 1..Len(needed_permissions) :
                needed_permissions[i] \in Range(get_groups_permissions(db, user_id)))
    THEN FALSE
    ELSE TRUE

\* permissions.py:28-34
RECURSIVE add_admins(_, _)
add_admins(db, admins) ==
    IF admins = {} THEN db
    ELSE LET a == CHOOSE x \in admins : TRUE
         IN  add_admins(add_user_to_group(db, a, "admin"), admins \ {a})

\* The bootstrap that grants admin to the system account only.
set_telegram_admins_system_only(db) == add_user_to_group(db, "1", "admin")

set_telegram_admins(db) ==
    add_admins(add_user_to_group(db, "1", "admin"), Config.telegram_user_admin_list)

\* The table shelve opens the first time: the empty dict of database.py:6-14.
EmptyTable == [k \in {} |-> << >>]

NoCall == [op |-> "none", user |-> "", group |-> "", raised |-> FALSE,
           before |-> EmptyTable]

PermIdle ==
    /\ permissions = EmptyTable
    /\ perm_call = NoCall
    /\ undone = None

\* The calls made on Permissions: the user whose membership is changed and
\* the group names given (the last one is not a group).
PermTargets == {"2"}
GroupArgs == Range(get_valid_groups) \cup {"root"}

AddUserToGroup(user_id, group) ==
    /\ permissions' = add_user_to_group(permissions, user_id, group)
    /\ perm_call' = [op |-> "add", user |-> user_id, group |-> group, raised |-> FALSE,
                     before |-> permissions]
    /\ undone' = Some([db |-> permissions, removed |-> FALSE])
    /\ UNCHANGED <<Config, genVars, srvVars, auxVars>>

RemoveUserFromGroup(user_id, group) ==
    LET r == remove_user_from_group(permissions, user_id, group)
    IN  /\ permissions' = r.db
        /\ perm_call' = [op |-> "remove", user |-> user_id, group |-> group,
                         raised |-> r.raised, before |-> permissions]
        /\ undone' = IF /\ undone # None
                        /\ ~undone[1].removed
                        /\ perm_call.op = "add"
                        /\ perm_call.user = user_id
                        /\ perm_call.group = group
                     THEN Some([db |-> undone[1].db, removed |-> TRUE])
                     ELSE None
        /\ UNCHANGED <<Config, genVars, srvVars, auxVars>>

\* commands.py:33-35 when the process starts again: Permissions() opens the
\* table the last run left and set_telegram_admins() runs on it.
SetTelegramAdmins ==
    /\ permissions' = set_telegram_admins(permissions)
    /\ perm_call' = [op |-> "bootstrap", user |-> "", group |-> "", raised |-> FALSE,
                     before |-> permissions]
    /\ undone' = None
    /\ UNCHANGED <<Config, genVars, srvVars, auxVars>>

(***************************************************************************)
(* Channels (pks/channels.py)                                              *)
(***************************************************************************)

\* add that leaves the flag of a chat already in the table as it is.
chan_add_new_only(db, chat) ==
    IF key_exists(db, chat) THEN db ELSE update(db, chat, TRUE)

\* channels.py:11-15
chan_add(db, chat) == update(db, chat, TRUE)

\* disable writing the flag whether or not the chat is in the table.
chan_disable_creating(db, chat) == update(db, chat, FALSE)

\* channels.py:17-19
chan_disable(db, chat) ==
    IF key_exists(db, chat) THEN update(db, chat, FALSE) ELSE db

\* channels.py:26-28
list_active_channels(db) == { c \in DOMAIN db : db[c] = TRUE }

\* The variables of the server other than the channels table.
srvRest == <<running, commands_user_id, sequence_thread, stop_event, roster, threads,
             main_pc, frame, reply, requests, handled, actor, effects>>

\* The chats that write to the bot.
ChatIds == {"7", "8", "9"}

NoChannels == [c \in {} |-> TRUE]
NoChanCall == [op |-> "none", chat |-> "", before |-> NoChannels, result |-> {}]

\* Channels() on a table that does not exist yet (channels.py:7-9, 35-41).
ChanIdle ==
    /\ chan_call = NoChanCall
    /\ chan_hist = [c \in ChatIds |-> [registered |-> FALSE, last |-> "none"]]

\* Channels.add(chat)
ChannelsAdd(chat) ==
    /\ channels' = chan_add(channels, chat)
    /\ chan_call' = [op |-> "add", chat |-> chat, before |-> channels, result |-> {}]
    /\ chan_hist' = [chan_hist EXCEPT ![chat] = [registered |-> TRUE, last |-> "add"]]
    /\ UNCHANGED <<Config, genVars, permVars, srvRest, storeVars, mainVars, svcVars>>

\* Channels.disable(chat)
ChannelsDisable(chat) ==
    /\ channels' = chan_disable(channels, chat)
    /\ chan_call' = [op |-> "disable", chat |-> chat, before |-> channels, result |-> {}]
    /\ chan_hist' = [chan_hist EXCEPT ![chat].last = "disable"]
    /\ UNCHANGED <<Config, genVars, permVars, srvRest, storeVars, mainVars, svcVars>>

\* Channels.list_active_channels()
ListActiveChannels ==
    /\ chan_call' = [op |-> "list", chat |-> "", before |-> channels,
                     result |-> list_active_channels(channels)]
    /\ UNCHANGED <<channels, chan_hist>>
    /\ UNCHANGED <<Config, genVars, permVars, srvRest, storeVars, mainVars, svcVars>>

(***************************************************************************)
(* Database (pks/database.py): a shelf opened without writeback.  Reading  *)
(* a column gives a copy of what was assigned last; an assignment goes to  *)
(* the dbm library, and sync() has it written to the file.  A store is     *)
(* [disk, unsynced].                                                       *)
(***************************************************************************)
\* A Database with a column of each kind, as in Database(name, {"entries":
\* dict, "items": list}), the keys and values written to it, and the
\* longest list.
Columns == <<[name |-> "entries", kind |-> "dict"], [name |-> "items", kind |-> "list"]>>
Keys == {"a", "b"}
Values == {1, 2}
MaxList == 2

NoColumns == [c \in {} |-> << >>]
NoFile == [disk |-> NoColumns, unsynced |-> NoColumns]

\* self.db[column]: what was assigned last, written to the file or not.
Shelf(st) ==
    [c \in DOMAIN st.disk \cup DOMAIN st.unsynced |->
        IF c \in DOMAIN st.unsynced THEN st.unsynced[c] ELSE st.disk[c]]

\* self.db[column] = value
shelf_set(st, column, value) == [st EXCEPT !.unsynced = update(@, column, value)]

\* The flush that writes nothing.
sync_never(st) == st

\* self.db.sync()
sync(st) == [disk |-> Shelf(st), unsynced |-> NoColumns]

\* database.py:41-43
column_exists(st, column) == column \in DOMAIN Shelf(st)

\* database.py:13, (columns[column])(): dict() or list().
EmptyContainer(kind) == IF kind = "dict" THEN [k \in {} |-> 0] ELSE << >>

\* __init__ giving every column its empty container, there or not.
RECURSIVE create_columns_always(_, _)
create_columns_always(st, n) ==
    IF n = 0 THEN st
    ELSE shelf_set(create_columns_always(st, n - 1), Columns[n].name,
                   EmptyContainer(Columns[n].kind))

\* database.py:11-13: the first n columns, created when they are not there.
RECURSIVE create_columns(_, _)
create_columns(st, n) ==
    IF n = 0 THEN st
    ELSE LET done == create_columns(st, n - 1)
         IN  IF ~column_exists(done, Columns[n].name)
             THEN shelf_set(done, Columns[n].name, EmptyContainer(Columns[n].kind))
             ELSE done

\* database.py:6-14
Database_init(st) == sync(create_columns(st, Len(Columns)))

\* database.py:51-57, with the pair {key: value}
Database_insert_dict(st, column, key, value) ==
    sync(shelf_set(st, column, update(Shelf(st)[column], key, value)))

\* database.py:59-64
Database_insert_list(st, column, value) ==
    sync(shelf_set(st, column, Append(Shelf(st)[column], value)))

\* database.py:66-72
Database_update(st, column, key, value) ==
    sync(shelf_set(st, column, update(Shelf(st)[column], key, value)))

\* database.py:16-17 and shelve: close() writes what is not written yet; a
\* process that ends without it leaves the file as the last sync() made it.
Database_del(st, closed) ==
    [disk |-> (IF closed THEN sync(st) ELSE st).disk, unsynced |-> NoColumns]

Store == [disk |-> disk, unsynced |-> unsynced]

NoStoreCall == [op |-> "none", column |-> "", key |-> "", value |-> 0,
                before |-> NoColumns]

\* No Database object yet, and no file.
StoreIdle ==
    /\ disk = NoColumns
    /\ unsynced = NoColumns
    /\ store_call = NoStoreCall

StoreStep(st, call) ==
    /\ disk' = st.disk
    /\ unsynced' = st.unsynced
    /\ store_call' = call @@ [before |-> Shelf(Store)] @@ NoStoreCall
    /\ UNCHANGED <<Config, genVars, permVars, srvVars, chanVars, mainVars, svcVars>>

\* insert_dict(column, {key: value}) on the dict column
InsertDict(key, value) ==
    StoreStep(Database_insert_dict(Store, "entries", key, value),
              [op |-> "insert_dict", column |-> "entries", key |-> key, value |-> value])

\* update(column, key, value) on the dict column
Update(key, value) ==
    StoreStep(Database_update(Store, "entries", key, value),
              [op |-> "update", column |-> "entries", key |-> key, value |-> value])

\* insert_list(column, value) on the list column
InsertList(value) ==
    /\ Len(Shelf(Store)["items"]) < MaxList
    /\ StoreStep(Database_insert_list(Store, "items", value),
                 [op |-> "insert_list", column |-> "items", value |-> value])

\* The process ends, with or without Database.__del__, and a new one
\* opens the same file.
Reopen ==
    \E closed \in BOOLEAN :
        StoreStep(Database_init(Database_del(Store, closed)), [op |-> "open"])

\* PKS.main(offset = 0) before its first poll (__init__.py:129), Telegram
\* holding no update for the bot yet.
MainIdle ==
    /\ offset = 0
    /\ all_updates = << >>
    /\ inbox = << >>
    /\ arrived = 0
    /\ delivered = << >>
    /\ seen = 0

\* The daemon is not looked at: it is down, its file holds sequence 0, no
\* thread is in its for loop and no sequence was sent.
SvcIdle ==
    /\ knockd = [up |-> FALSE, sequence |-> 0, failed |-> FALSE]
    /\ local_seq = << >>
    /\ notified = None

AuxIdle == ChanIdle /\ StoreIdle /\ MainIdle /\ SvcIdle

(***************************************************************************)
(* PKS.process (pks/__init__.py) and the handlers of Commands              *)
(* (pks/commands.py).  An update is [from, chat, command, args]: the       *)
(* sender, the chat, the first token of the text up to "@", and the        *)
(* tokens after it.                                                        *)
(***************************************************************************)
\* __init__.py:38-58 and 107: the handler a command resolves to.
handler_of(command) ==
    CASE command = "/generate" -> "generate"
      [] command = "/start" -> "start"
      [] command = "/stop" -> "stop"
      [] command = "/forget" -> "forget"
      [] command = "/shutdown" -> "shutdown"
      [] command = "/list_groups_members" -> "list_groups_members"
      [] command = "/add_perm" -> "add_perm"
      [] command = "/remove_perm" -> "remove_perm"
      [] command = "/help" -> "help"
      [] OTHER -> "invalid"

\* __init__.py:38-58 and 108: the number of arguments it expects.
num_exp_args(command) ==
    IF command \in {"/add_perm", "/remove_perm"} THEN 2 ELSE 0

\* The decorators of commands.py:46-199.
RequiredPermissions(func) ==
    CASE func \in {"invalid", "help"} -> <<"none">>
      [] func = "generate" -> <<"manage_sequences">>
      [] func \in {"add_perm", "remove_perm", "shutdown"} ->
            <<"modify_bot_behaviour", "admin_access">>
      [] func \in {"forget", "list_groups_members", "start", "stop"} ->
            <<"modify_bot_behaviour">>

\* __init__.py:80-87
are_args_valid(found_args, expected_args) ==
    IF found_args > expected_args
    THEN [valid |-> FALSE,
          message |-> <<"Too many arguments", ToString(expected_args), ToString(found_args)>>]
    ELSE IF found_args < expected_args
    THEN [valid |-> FALSE,
          message |-> <<"Too few arguments", ToString(expected_args), ToString(found_args)>>]
    ELSE [valid |-> TRUE, message |-> None]

ArgsValid(u) == are_args_valid(Len(u.args), num_exp_args(u.command)).valid

\* The decorator testing only the first permission it was given.
permissions_required_first(func, caller) ==
    is_user_allowed(permissions, caller, <<RequiredPermissions(func)[1]>>)

\* commands.py:19-20: the test of the decorator, on str(obj.user_id).
permissions_required(func, caller) ==
    is_user_allowed(permissions, caller, RequiredPermissions(func))

Forbidden == <<"Action forbidden ; insufficient rights.">>

NoFrame == [chat |-> "", command |-> ""]

\* __init__.py:126-127: the reply, when the handler returned a message.
Message(chat, text) ==
    IF text = None THEN None ELSE Some([chat |-> chat, text |-> text])

\* A thread is where its code is: "top" (the test of the while loop,
\* commands.py:112), "sleep" (113), "apply" (the test of 114 is passed, the
\* sequence is to be made and applied), "send" (in the for loop of 125-126)
\* or "dead" (not started, or ended).  In the for loop, k is the place of
\* the next user in the list iterated, which is the list the attribute
\* _sequence_thread_user_ids is bound to (live) or the rest of a list the
\* attribute was bound to when the loop started.
At(pc) == [pc |-> pc, k |-> 0, list |-> << >>, live |-> FALSE]
Dead == At("dead")

is_alive(t) == threads[t].pc # "dead"

\* commands.py:85 and 185
thread_is_alive == sequence_thread # None /\ is_alive(sequence_thread[1])

\* The attribute _sequence_thread_user_ids is bound to a new list: a thread
\* in its for loop goes on with the list object it started on.
Rebound(thr) ==
    [t \in DOMAIN thr |->
        IF thr[t].live
        THEN [thr[t] EXCEPT !.list = SubSeq(roster, thr[t].k, Len(roster)),
                            !.k = 1, !.live = FALSE]
        ELSE thr[t]]

\* The string Python makes of a bool.
Str(b) == IF b THEN "True" ELSE "False"

\* utils.py:34-40: the calls made, then the value returned.
restart_service(stop_ok, start_ok) ==
    IF stop_ok
    THEN <<<<"stop_service", Str(TRUE)>>, <<"start_service", Str(start_ok)>>,
           <<"restart_service", Str(start_ok)>>>>
    ELSE <<<<"stop_service", Str(FALSE)>>, <<"restart_service", Str(FALSE)>>>>

\* core.py:46-49
set_open_sequence(stop_ok, start_ok) ==
    <<<<"configure_knockd">>>> \o restart_service(stop_ok, start_ok)

\* The sequence made anew whatever the configuration says.
new_sequence_generated == <<"generate_new_sequence">>

\* commands.py:99-102 and 116-119: where the sequence comes from.
new_sequence ==
    IF Config.use_open_sequence THEN <<"open_sequence">> ELSE <<"generate_new_sequence">>

\* __init__.py:89-127 for an update whose handler only reads: the channel is
\* registered, Commands.user_id is set, the message is what the handler returned.
Answered(u, text) ==
    /\ main_pc = "poll"
    /\ channels' = chan_add(channels, u.chat)
    /\ commands_user_id' = u.from
    /\ reply' = Message(u.chat, text)
    /\ requests' = << >>
    /\ effects' = << >>
    /\ UNCHANGED <<permissions, running, sequence_thread, stop_event, roster,
                   threads, main_pc, frame>>

\* __init__.py:120-124: the handler is called when the count of arguments
\* is the expected one, and its body runs when the decorator lets it.
Called(u, func) ==
    /\ main_pc = "poll"
    /\ handler_of(u.command) = func
    /\ ArgsValid(u)
    /\ permissions_required(func, u.from)

\* __init__.py:120-121 and 126-127, the count of arguments is wrong.
ArgumentMismatch(u) ==
    /\ ~ArgsValid(u)
    /\ Answered(u, are_args_valid(Len(u.args), num_exp_args(u.command)).message)

\* The decorator consulted before the arguments are counted.
DeniedBeforeArguments(u) ==
    /\ ~permissions_required(handler_of(u.command), u.from)
    /\ Answered(u, Forbidden)

\* commands.py:22-24
Denied(u) ==
    /\ ArgsValid(u)
    /\ ~permissions_required(handler_of(u.command), u.from)
    /\ Answered(u, Forbidden)

\* commands.py:46-49
invalid(u) == Called(u, "invalid") /\ Answered(u, None)

\* commands.py:51-60
help(u) ==
    /\ Called(u, "help")
    /\ Answered(u, IF running THEN <<"Commands available">> ELSE None)

\* commands.py:163-169
list_groups_members(u) ==
    /\ Called(u, "list_groups_members")
    /\ Answered(u, <<"guest, member, manager, admin and their members">>)

\* commands.py:158-161
forget(u) ==
    /\ Called(u, "forget")
    /\ channels' = chan_disable(chan_add(channels, u.chat), u.chat)
    /\ commands_user_id' = u.from
    /\ reply' = None
    /\ requests' = << >>
    /\ effects' = << >>
    /\ UNCHANGED <<permissions, running, sequence_thread, stop_event, roster,
                   threads, main_pc, frame>>

\* /add_perm leaving the test of the group to Permissions.add_user_to_group.
add_perm_unchecked(u) ==
    /\ Called(u, "add_perm")
    /\ channels' = chan_add(channels, u.chat)
    /\ commands_user_id' = u.from
    /\ requests' = << >>
    /\ permissions' = add_user_to_group(permissions, u.args[1], u.args[2])
    /\ reply' = Message(u.chat,
           <<"User successfully added to group !", u.args[1], u.args[2]>>)
    /\ effects' = << >>
    /\ UNCHANGED <<running, sequence_thread, stop_event, roster, threads,
                   main_pc, frame>>

\* commands.py:66-72
add_perm(u) ==
    /\ Called(u, "add_perm")
    /\ channels' = chan_add(channels, u.chat)
    /\ commands_user_id' = u.from
    /\ requests' = << >>
    /\ IF ~is_group_valid(u.args[2])
       THEN /\ reply' = Message(u.chat, <<"Group is invalid !", u.args[2]>>)
            /\ permissions' = permissions
       ELSE /\ permissions' = add_user_to_group(permissions, u.args[1], u.args[2])
            /\ reply' = Message(u.chat,
                   <<"User successfully added to group !", u.args[1], u.args[2]>>)
    /\ effects' = << >>
    /\ UNCHANGED <<running, sequence_thread, stop_event, roster, threads,
                   main_pc, frame>>

\* commands.py:74-80; a KeyError of remove_user_from_group is caught nowhere
\* (__init__.py:140-153 catches SystemExit only): the process ends, and its
\* daemon threads with it.
remove_perm(u) ==
    /\ Called(u, "remove_perm")
    /\ channels' = chan_add(channels, u.chat)
    /\ commands_user_id' = u.from
    /\ requests' = << >>
    /\ LET r == remove_user_from_group(permissions, u.args[1], u.args[2])
       IN  IF ~is_group_valid(u.args[2])
           THEN /\ reply' = Message(u.chat, <<"Group is invalid !", u.args[2]>>)
                /\ UNCHANGED <<permissions, main_pc, threads>>
           ELSE IF r.raised
           THEN /\ reply' = None
                /\ main_pc' = "crashed"
                /\ threads' = [t \in DOMAIN threads |-> Dead]
                /\ permissions' = permissions
           ELSE /\ permissions' = r.db
                /\ reply' = Message(u.chat,
                       <<"User successfully removed from group !", u.args[1], u.args[2]>>)
                /\ UNCHANGED <<main_pc, threads>>
    /\ effects' = << >>
    /\ UNCHANGED <<running, sequence_thread, stop_event, roster, frame>>

\* commands.py:171-180; Utils.start_service succeeds or not.
start(u) ==
    /\ Called(u, "start")
    /\ channels' = chan_add(channels, u.chat)
    /\ commands_user_id' = u.from
    /\ requests' = << >>
    /\ IF ~running
       THEN \E ok \in BOOLEAN :
              /\ effects' = <<<<"start_service", Str(ok)>>>>
              /\ running' = ok
              /\ reply' = Message(u.chat,
                     IF ok THEN <<"Started knockd.">>
                     ELSE <<"Could not start knockd ; unknown error.">>)
       ELSE /\ effects' = << >>
            /\ running' = running
            /\ reply' = Message(u.chat, <<"Knockd already running.">>)
    /\ UNCHANGED <<permissions, sequence_thread, stop_event, roster, threads,
                   main_pc, frame>>

(***************************************************************************)
(* The periodic rotation: Commands.generate, Commands.stop,                *)
(* Commands.shutdown and the threads of _periodic_sequence_update.         *)
(***************************************************************************)
\* The Thread objects there is room for.
Threads == DOMAIN threads

\* The Thread object created at commands.py:95 takes the lowest free place.
FreeThreads == { t \in Threads : ~is_alive(t) }
NewThread == CHOOSE t \in FreeThreads : \A x \in FreeThreads : t <= x

\* The test never finding the caller in the list.
subscribed_never(user) == FALSE

\* commands.py:86: the caller is in the list.
subscribed(user) == user \in Range(roster)

\* commands.py:82-96: the caller joins the running rotation, or the event
\* is cleared, the list is bound to [user_id] and a new thread is started.
generate(u) ==
    /\ Called(u, "generate")
    /\ channels' = chan_add(channels, u.chat)
    /\ commands_user_id' = u.from
    /\ IF thread_is_alive
       THEN /\ IF ~subscribed(u.from)
               THEN /\ roster' = Append(roster, u.from)
                    /\ reply' = Message(u.chat,
                           <<"Added you to the sequence generation list. Total users:",
                             ToString(Len(roster) + 1)>>)
               ELSE /\ roster' = roster
                    /\ reply' = Message(u.chat,
                           <<"You are already receiving periodic sequences. Use /stop to stop for everyone.">>)
            /\ requests' = IF Len(requests) = 1 THEN Append(requests, u.from) ELSE << >>
            /\ UNCHANGED <<stop_event, sequence_thread, threads, main_pc, frame>>
       ELSE /\ FreeThreads # {}
            /\ stop_event' = FALSE
            /\ roster' = <<u.from>>
            /\ sequence_thread' = Some(NewThread)
            /\ threads' = [Rebound(threads) EXCEPT ![NewThread] = At("top")]
            /\ main_pc' = "generate"
            /\ frame' = [chat |-> u.chat, command |-> u.command]
            /\ reply' = None
            /\ requests' = <<u.from>>
    /\ effects' = << >>
    /\ UNCHANGED <<permissions, running>>

\* commands.py:98-109 and __init__.py:126-127: the first sequence is made,
\* applied and sent to the caller, and the handler returns its message.
GenerateFirst ==
    /\ main_pc = "generate"
    /\ \E stop_ok \in BOOLEAN, start_ok \in BOOLEAN :
          effects' = <<new_sequence>> \o set_open_sequence(stop_ok, start_ok)
                        \o <<<<"send_message", commands_user_id>>>>
    /\ reply' = Message(frame.chat,
           <<"Started periodic port sequence generation. Use /stop to stop for everyone.">>)
    /\ main_pc' = "poll"
    /\ frame' = NoFrame
    /\ actor' = 0
    /\ UNCHANGED <<permissions, channels, running, commands_user_id, sequence_thread,
                   stop_event, roster, threads, requests, handled>>

\* The service stopped whatever the running flag says.
StopKnockdAlways(chat, exits) ==
    /\ \E ok \in BOOLEAN :
          /\ effects' = <<<<"stop_service", Str(ok)>>>>
          /\ running' = IF ok THEN FALSE ELSE running
          /\ reply' = IF exits THEN None
                      ELSE Message(chat,
                             IF ok THEN <<"Stopped knockd and periodic sequence generation.">>
                             ELSE <<"Could not stop knockd ; unknown error.">>)
    /\ main_pc' = IF exits THEN "exited" ELSE "poll"
    /\ frame' = NoFrame

\* commands.py:191-197, and 202-203 when stop was called by shutdown:
\* SystemExit ends the process and its daemon threads, nothing is replied.
StopKnockd(chat, exits) ==
    /\ IF running
       THEN \E ok \in BOOLEAN :
              /\ effects' = <<<<"stop_service", Str(ok)>>>>
              /\ running' = ~ok
              /\ reply' = IF exits THEN None
                          ELSE Message(chat,
                                 IF ok THEN <<"Stopped knockd and periodic sequence generation.">>
                                 ELSE <<"Could not stop knockd ; unknown error.">>)
       ELSE /\ effects' = << >>
            /\ running' = running
            /\ reply' = IF exits THEN None
                        ELSE Message(chat,
                               <<"Knockd already stopped. Periodic sequence generation (if any) also stopped.">>)
    /\ main_pc' = IF exits THEN "exited" ELSE "poll"
    /\ frame' = NoFrame

\* commands.py:182-186 (called from 199-201 for shutdown): with a thread
\* alive the event is set and the thread is joined, otherwise 191-197.
StopOrShutdown(u, func) ==
    /\ Called(u, func)
    /\ channels' = chan_add(channels, u.chat)
    /\ commands_user_id' = u.from
    /\ requests' = << >>
    /\ IF thread_is_alive
       THEN /\ stop_event' = TRUE
            /\ main_pc' = "join"
            /\ frame' = [chat |-> u.chat, command |-> u.command]
            /\ reply' = None
            /\ effects' = << >>
            /\ UNCHANGED <<running, sequence_thread, roster, threads>>
       ELSE /\ StopKnockd(u.chat, func = "shutdown")
            /\ threads' = IF func = "shutdown" THEN [t \in Threads |-> Dead] ELSE threads
            /\ UNCHANGED <<stop_event, sequence_thread, roster>>
    /\ UNCHANGED permissions

stop(u) == StopOrShutdown(u, "stop")

shutdown(u) == StopOrShutdown(u, "shutdown")

\* commands.py:187-197: join(timeout=2) returns, because the thread ended
\* or because two seconds went by while it was in sleep(60) or sending (the
\* test of the while loop takes no such time); the thread is forgotten and
\* the list is bound to a new empty list.
StopJoin ==
    /\ main_pc = "join"
    /\ threads[sequence_thread[1]].pc # "top"
    /\ sequence_thread' = None
    /\ roster' = << >>
    /\ StopKnockd(frame.chat, frame.command = "/shutdown")
    /\ threads' = IF frame.command = "/shutdown" THEN [t \in Threads |-> Dead]
                  ELSE Rebound(threads)
    /\ actor' = 0
    /\ UNCHANGED <<permissions, channels, commands_user_id, stop_event, requests,
                   handled>>

ThreadStep(t, next, done) ==
    /\ threads' = [threads EXCEPT ![t] = next]
    /\ effects' = done
    /\ actor' = t
    /\ reply' = None
    /\ handled' = IF main_pc = "poll" THEN None ELSE handled
    /\ UNCHANGED <<permissions, channels, running, commands_user_id, sequence_thread,
                   stop_event, roster, main_pc, frame, requests>>

\* commands.py:112: the test of the while loop.
ThreadTop(t) ==
    /\ threads[t].pc = "top"
    /\ ThreadStep(t, IF stop_event THEN Dead ELSE At("sleep"), << >>)

\* commands.py:113-115: sleep(60) ends and the event is tested again.
ThreadWake(t) ==
    /\ threads[t].pc = "sleep"
    /\ ThreadStep(t, IF stop_event THEN Dead ELSE At("apply"), << >>)

\* commands.py:116-125: a sequence is made and applied, and the for loop
\* starts on the list the attribute is bound to.
ThreadApply(t) ==
    /\ threads[t].pc = "apply"
    /\ \E stop_ok \in BOOLEAN, start_ok \in BOOLEAN :
          ThreadStep(t, [pc |-> "send", k |-> 1, list |-> << >>, live |-> TRUE],
                     <<new_sequence>> \o set_open_sequence(stop_ok, start_ok))

\* The list a thread in its for loop is iterating.
Iterated(t) == IF threads[t].live THEN roster ELSE threads[t].list

\* commands.py:125-126: one turn of the for loop, or its end.
ThreadSend(t) ==
    /\ threads[t].pc = "send"
    /\ IF threads[t].k > Len(Iterated(t))
       THEN ThreadStep(t, At("top"), << >>)
       ELSE ThreadStep(t, [threads[t] EXCEPT !.k = @ + 1],
                       <<<<"send_message", Iterated(t)[threads[t].k]>>>>)

periodic_sequence_update ==
    \E t \in Threads : ThreadTop(t) \/ ThreadWake(t) \/ ThreadApply(t) \/ ThreadSend(t)

\* What process() finds when it is called.
Found ==
    [permissions |-> permissions, channels |-> channels, running |-> running,
     sequence_thread |-> sequence_thread, stop_event |-> stop_event,
     roster |-> roster, threads |-> threads]

\* __init__.py:89-127 for one update.
process(u) ==
    /\ handled' = Some([update |-> u, found |-> Found])
    /\ actor' = 0
    /\ \/ ArgumentMismatch(u)
       \/ Denied(u)
       \/ invalid(u)
       \/ help(u)
       \/ list_groups_members(u)
       \/ forget(u)
       \/ add_perm(u)
       \/ remove_perm(u)
       \/ start(u)
       \/ generate(u)
       \/ stop(u)
       \/ shutdown(u)

\* The server before its first update, but for `running`, with room for n
\* threads.
Idle(n) ==
    /\ channels = [k \in {} |-> TRUE]
    /\ commands_user_id = "1"
    /\ sequence_thread = None
    /\ stop_event = FALSE
    /\ roster = << >>
    /\ threads = [t \in 1..n |-> Dead]
    /\ main_pc = "poll"
    /\ frame = NoFrame
    /\ reply = None
    /\ requests = << >>
    /\ handled = None
    /\ actor = 0
    /\ effects = << >>

SrvIdle == Idle(1)

vars == <<Config, genVars, permVars, srvVars, auxVars>>

\* The user settings a configuration may hold.
UserListConfigs ==
    { [telegram_user_whitelist |-> w, telegram_user_blacklist |-> b,
       telegram_user_admin_list |-> a] :
        w \in {{}, {"1", "2"}, {"1", "3"}}, b \in {{}, {"2"}}, a \in {{}, {"2"}} }

\* The permission engine on its own: Permissions() then set_telegram_admins()
\* (commands.py:33-35), then any calls, the process starting again at times.
InitPerm ==
    /\ Config \in { ScenarioPorts @@ u : u \in UserListConfigs }
    /\ GenIdle
    /\ AuxIdle
    /\ permissions = set_telegram_admins(EmptyTable)
    /\ perm_call = NoCall
    /\ undone = None
    /\ SrvIdle /\ running = FALSE

NextPerm ==
    \/ \E u \in PermTargets, g \in GroupArgs : AddUserToGroup(u, g)
    \/ \E u \in PermTargets, g \in GroupArgs : RemoveUserFromGroup(u, g)
    \/ SetTelegramAdmins

SpecPerm == InitPerm /\ [][NextPerm]_vars


\* One call of generate_new_sequence, for every configuration and argument.
InitGen ==
    /\ Config \in { p @@ NoUserLists : p \in PortConfigs }
    /\ GenIdle
    /\ AuxIdle
    /\ PermIdle
    /\ SrvIdle /\ running = FALSE

NextGen ==
    \/ \E num \in 0..MaxN, seed \in Seeds : GenCall(num, seed)
    \/ filter_port_list

SpecGen == InitGen /\ [][NextGen]_vars

\* The loop of the filter is never abandoned.
SpecGenFair == SpecGen /\ WF_vars(filter_port_list)

\* Repeated calls with the same arguments.
InitDet ==
    /\ Config \in { p @@ NoUserLists : p \in PortConfigs \ {ScenarioPorts} }
    /\ GenIdle
    /\ AuxIdle
    /\ PermIdle
    /\ SrvIdle /\ running = FALSE

NextDet ==
    \/ \E num \in 0..MaxN, seed \in Seeds : GenCall(num, seed)
    \/ filter_port_list
    \/ GenRepeat

SpecDet == InitDet /\ [][NextDet]_vars

\* The settings of the server: user 2 is a configured admin, and there is
\* no allow-list or one that leaves user 3 out.
ServerConfigs ==
    { ScenarioPorts @@ [telegram_user_whitelist |-> w, telegram_user_blacklist |-> {},
                        telegram_user_admin_list |-> {"2"},
                        use_open_sequence |-> FALSE] :
        w \in {{}, {"1", "2"}} }

\* The updates the bot receives, all written in one group chat: the commands
\* of the table and two that are not in it.  Every command comes with no
\* argument; those that change a group also come with a user and a group, or
\* something that is no group, /add_perm with one argument more, and the
\* command that is not in the table with an argument.
Senders == {"2", "3"}
Chat == "9"
CommandNames ==
    {"/generate", "/start", "/stop", "/forget", "/shutdown", "/list_groups_members",
     "/add_perm", "/remove_perm", "/help", "/status", "/print_broadcast_list"}
ArgLists(c) ==
    IF c = "/add_perm"
    THEN {<< >>, <<"3", "manager">>, <<"3", "root">>, <<"3", "manager", "extra">>}
    ELSE IF c = "/remove_perm" THEN {<< >>, <<"3", "manager">>, <<"3", "root">>}
    ELSE IF c = "/status" THEN {<< >>, <<"now">>}
    ELSE {<< >>}
Updates ==
    UNION { { [from |-> f, chat |-> Chat, command |-> c, args |-> a] : a \in ArgLists(c) } :
              f \in Senders, c \in CommandNames }

\* Commands.__init__ (commands.py:31-40): the table holds the admins, and
\* self.start() runs as user "1".
Init ==
    /\ Config \in ServerConfigs
    /\ GenIdle
    /\ AuxIdle
    /\ permissions = set_telegram_admins(EmptyTable)
    /\ perm_call = NoCall
    /\ undone = None
    /\ SrvIdle
    /\ running \in IF is_user_allowed(set_telegram_admins(EmptyTable), "1",
                                      <<"modify_bot_behaviour">>)
                   THEN BOOLEAN ELSE {FALSE}

\* What the server leaves alone.
Elsewhere == UNCHANGED <<Config, genVars, perm_call, undone, auxVars>>

\* PKS.main (__init__.py:129-152) handles the updates one after the other,
\* while the rotation threads run.
Next ==
    \/ \E u \in Updates : process(u) /\ Elsewhere
    \/ GenerateFirst /\ Elsewhere
    \/ StopJoin /\ Elsewhere
    \/ periodic_sequence_update /\ Elsewhere

Spec == Init /\ [][Next]_vars

\* The rotation on its own: user 3 has been made a manager, the sequence is
\* the configured one or a new one, and the updates are the commands that
\* start, join and stop the rotation.
RotationConfigs ==
    { ScenarioPorts @@ [telegram_user_whitelist |-> {}, telegram_user_blacklist |-> {},
                        telegram_user_admin_list |-> {"2"},
                        use_open_sequence |-> o] :
        o \in BOOLEAN }

RotationUpdates ==
    { u \in Updates : u.command \in {"/generate", "/stop", "/shutdown"} }

InitRotation ==
    /\ Config \in RotationConfigs
    /\ GenIdle
    /\ AuxIdle
    /\ permissions = add_user_to_group(set_telegram_admins(EmptyTable), "3", "manager")
    /\ perm_call = NoCall
    /\ undone = None
    /\ Idle(MaxThreads)
    /\ running \in BOOLEAN

NextRotation ==
    \/ \E u \in RotationUpdates : process(u) /\ Elsewhere
    \/ GenerateFirst /\ Elsewhere
    \/ StopJoin /\ Elsewhere
    \/ periodic_sequence_update /\ Elsewhere

SpecRotation == InitRotation /\ [][NextRotation]_vars

\* The wake-ups of one rotation thread, scheduled fairly, while users ask
\* for the rotation, an admin stops it or takes user 3 out of the managers.
WakeUpUpdates ==
    { u \in Updates :
        \/ u.command \in {"/generate", "/stop"}
        \/ u.command = "/remove_perm" /\ u.from = "2" /\ u.args = <<"3", "manager">> }

InitWakeUps ==
    /\ Config \in RotationConfigs
    /\ GenIdle
    /\ AuxIdle
    /\ permissions = add_user_to_group(set_telegram_admins(EmptyTable), "3", "manager")
    /\ perm_call = NoCall
    /\ undone = None
    /\ Idle(1)
    /\ running = FALSE

NextWakeUps ==
    \/ \E u \in WakeUpUpdates : process(u) /\ Elsewhere
    \/ GenerateFirst /\ Elsewhere
    \/ StopJoin /\ Elsewhere
    \/ periodic_sequence_update /\ Elsewhere

\* The main thread goes on with the handler it is in and the rotation thread
\* is scheduled; the updates come when they come.
SpecWakeUps ==
    /\ InitWakeUps /\ [][NextWakeUps]_vars
    /\ WF_vars(GenerateFirst /\ Elsewhere)
    /\ WF_vars(StopJoin /\ Elsewhere)
    /\ WF_vars(periodic_sequence_update /\ Elsewhere)

(***************************************************************************)
(* PKS.main (pks/__init__.py:129-152) and TelegramBot.get_updates          *)
(* (pks/telegram.py:39-45).  An update of Telegram is [update_id, text,    *)
(* missing]: text is None for an update without a message or a message     *)
(* without text, or what was written, as the record process() reads it;    *)
(* missing names the key the update lacks, or "nothing".                   *)
(***************************************************************************)
\* What is written to the bot: /generate and a removal from a group by the
\* admin 2, /shutdown by the admin and by user 3, and a remark of user 3.
MainUpdates ==
    { u \in Updates :
        \/ u.command \in {"/generate", "/shutdown"} /\ u.from = "2"
        \/ u.command = "/shutdown" /\ u.from = "3"
        \/ u.command = "/remove_perm" /\ u.from = "2" /\ u.args = <<"3", "manager">> }

Remark == [from |-> "3", chat |-> Chat, command |-> "hello", args |-> << >>]

Texts == {None} \cup { Some(u) : u \in MainUpdates \cup {Remark} }

\* What Telegram sends: an update with all its fields, one without the key
\* 'message' (an edited message, a channel post), one whose message has no
\* 'text' (a photo), and one whose message has a text and no 'date'.
Arrivals ==
    { [text |-> t, missing |-> "nothing"] : t \in Texts \ {None} }
      \cup { [text |-> None, missing |-> m] : m \in {"message", "text"} }
      \cup { [text |-> Some(u), missing |-> "date"] :
                u \in {Remark} \cup { v \in MainUpdates : v.command = "/generate" } }

\* upd_txt.startswith("/") (__init__.py:144)
startswith_slash(u) == u # Remark

\* telegram.py:39-45: getUpdates answers with the updates whose update_id
\* is at least offset, oldest first, and forgets the earlier ones.
get_updates(box, off) == SelectSeq(box, LAMBDA m : m.update_id >= off)

\* Somebody writes to the bot: Telegram numbers the update.
Arrive(sent) ==
    /\ arrived < MaxUpdates
    /\ arrived' = arrived + 1
    /\ inbox' = Append(inbox, [update_id |-> arrived + 1, text |-> sent.text,
                               missing |-> sent.missing])
    /\ UNCHANGED <<offset, all_updates, delivered, seen, permissions, srvVars>>

\* __init__.py:132-135: a poll that brings updates starts the for loop.
GetUpdates ==
    /\ main_pc = "poll"
    /\ all_updates = << >>
    /\ get_updates(inbox, offset) # << >>
    /\ all_updates' = get_updates(inbox, offset)
    /\ inbox' = get_updates(inbox, offset)
    /\ UNCHANGED <<offset, arrived, delivered, seen, permissions, srvVars>>

\* __init__.py:151-152, and the for loop goes to the next update.
Advance(current_update) ==
    /\ offset' = current_update.update_id + 1
    /\ all_updates' = Tail(all_updates)

\* __init__.py:143: upd_time = current_update['message']['date'] is in the
\* else branch of the inner try, where `except KeyError` does not reach, and
\* the outer try catches SystemExit only.
date_raises(current_update) ==
    current_update.text # None /\ current_update.missing = "date"

\* __init__.py:138-144: an update without text, whose text does not start
\* with "/", or older than Config.telegram_timeout is not processed.
MainSkip ==
    /\ main_pc = "poll"
    /\ all_updates # << >>
    /\ ~date_raises(Head(all_updates))
    /\ seen' = Head(all_updates).update_id
    /\ Advance(Head(all_updates))
    /\ UNCHANGED <<inbox, arrived, delivered, permissions, srvVars>>

\* __init__.py:144-152: a command that is not too old is processed; the
\* cursor moves when process returns.
MainProcess ==
    /\ main_pc = "poll"
    /\ all_updates # << >>
    /\ Head(all_updates).text # None
    /\ ~date_raises(Head(all_updates))
    /\ startswith_slash(Head(all_updates).text[1])
    /\ process(Head(all_updates).text[1])
    /\ delivered' = Append(delivered, Head(all_updates).update_id)
    /\ seen' = Head(all_updates).update_id
    /\ IF main_pc' = "poll"
       THEN Advance(Head(all_updates))
       ELSE UNCHANGED <<offset, all_updates>>
    /\ UNCHANGED <<inbox, arrived>>

\* __init__.py:143: the KeyError of a message with a text and no date
\* leaves main(): the process ends, and its threads with it, before the
\* cursor is moved.
MainKeyError ==
    /\ main_pc = "poll"
    /\ all_updates # << >>
    /\ date_raises(Head(all_updates))
    /\ main_pc' = "crashed"
    /\ threads' = [t \in DOMAIN threads |-> Dead]
    /\ seen' = Head(all_updates).update_id
    /\ handled' = None
    /\ actor' = 0
    /\ reply' = None
    /\ effects' = << >>
    /\ UNCHANGED <<offset, all_updates, inbox, arrived, delivered, permissions, channels,
                   running, commands_user_id, sequence_thread, stop_event, roster,
                   frame, requests>>

\* The handler of /generate, /stop or /shutdown goes on; the cursor moves
\* when process returns.
MainResume ==
    /\ GenerateFirst \/ StopJoin
    /\ IF main_pc' = "poll"
       THEN Advance(Head(all_updates))
       ELSE UNCHANGED <<offset, all_updates>>
    /\ UNCHANGED <<inbox, arrived, delivered, seen>>

ElsewhereMain ==
    UNCHANGED <<Config, genVars, perm_call, undone, chanVars, storeVars, svcVars>>

\* The bot as it runs: the first poll is made with offset 0.
InitMain ==
    /\ Config \in RotationConfigs
    /\ Config.use_open_sequence = FALSE
    /\ GenIdle
    /\ AuxIdle
    /\ permissions = set_telegram_admins(EmptyTable)
    /\ perm_call = NoCall
    /\ undone = None
    /\ Idle(1)
    /\ running \in BOOLEAN

NextMain ==
    \/ \E sent \in Arrivals : Arrive(sent) /\ ElsewhereMain
    \/ GetUpdates /\ ElsewhereMain
    \/ MainSkip /\ ElsewhereMain
    \/ MainProcess /\ ElsewhereMain
    \/ MainKeyError /\ ElsewhereMain
    \/ MainResume /\ ElsewhereMain
    \/ periodic_sequence_update /\ Elsewhere

SpecMain == InitMain /\ [][NextMain]_vars

\* The channels table on its own: any calls of add, disable and
\* list_active_channels for three chats.
InitChannels ==
    /\ Config \in { ScenarioPorts @@ NoUserLists }
    /\ GenIdle
    /\ AuxIdle
    /\ PermIdle
    /\ SrvIdle /\ running = FALSE

NextChannels ==
    \/ \E c \in ChatIds : ChannelsAdd(c)
    \/ \E c \in ChatIds : ChannelsDisable(c)
    \/ ListActiveChannels

SpecChannels == InitChannels /\ [][NextChannels]_vars

\* A Database on its own: the file does not exist when it is opened first,
\* then any writes, the process ending and starting again at times.
InitStore ==
    /\ Config \in { ScenarioPorts @@ NoUserLists }
    /\ GenIdle
    /\ ChanIdle /\ MainIdle /\ SvcIdle
    /\ disk = Database_init(NoFile).disk
    /\ unsynced = Database_init(NoFile).unsynced
    /\ store_call = [op |-> "open"] @@ NoStoreCall
    /\ PermIdle
    /\ SrvIdle /\ running = FALSE

NextStore ==
    \/ \E k \in Keys, v \in Values : InsertDict(k, v)
    \/ \E k \in Keys, v \in Values : Update(k, v)
    \/ \E v \in Values : InsertList(v)
    \/ Reopen

SpecStore == InitStore /\ [][NextStore]_vars

(***************************************************************************)
(* The daemon the server drives (pks/utils.py, pks/core.py): what the      *)
(* calls of systemctl and the writes of the configuration file leave       *)
(* behind, and the sequence each notification tells.                       *)
(***************************************************************************)

\* The sequences generate_new_sequence may return; 0 is
\* Config.open_sequence, and what the file holds before the first write.
MaxSequences == 2
SequenceIds == IF Config.use_open_sequence THEN {0} ELSE 1..MaxSequences

\* utils.py:13-32: systemctl start leaves the service up and systemctl stop
\* leaves it down when they return 0; a call that fails is remembered.
one_call(d, call) ==
    IF call = <<"stop_service", "True">> THEN [d EXCEPT !.up = FALSE]
    ELSE IF call = <<"start_service", "True">> THEN [d EXCEPT !.up = TRUE]
    ELSE IF call \in {<<"stop_service", "False">>, <<"start_service", "False">>}
    THEN [d EXCEPT !.failed = TRUE]
    ELSE d

RECURSIVE after_calls(_, _)
after_calls(d, calls) ==
    IF calls = << >> THEN d
    ELSE after_calls(one_call(d, Head(calls)), Tail(calls))

\* The step just taken wrote the configuration file (core.py:74-75).
Configured(done) == \E i \in 1..Len(done) : done[i] = <<"configure_knockd">>

\* The step just taken sent a "New sequence: ..." message (commands.py:109,
\* 126).
Sent(done) == \E i \in 1..Len(done) : done[i][1] = "send_message"

\* What a step of the server does to the daemon: the sequence made at
\* commands.py:99-102 or 116-119 is written to the file by set_open_sequence
\* and is the one of the messages sent at 109 or, by the thread in its for
\* loop, at 126.
Daemon ==
    \E s \in (IF Configured(effects') THEN SequenceIds ELSE {0}) :
        /\ knockd' = [after_calls(knockd, effects') EXCEPT
                         !.sequence = IF Configured(effects') THEN s ELSE @]
        /\ local_seq' = [t \in { x \in DOMAIN threads' : threads'[x].pc = "send" } |->
                            IF t = actor' /\ Configured(effects') THEN s ELSE local_seq[t]]
        /\ notified' = IF ~Sent(effects') THEN notified
                       ELSE IF Configured(effects') THEN Some(s)
                       ELSE Some(local_seq[actor'])

ElsewhereService ==
    UNCHANGED <<Config, genVars, perm_call, undone, chanVars, storeVars, mainVars>>

\* The commands that start and stop the daemon and the rotation.
ServiceUpdates ==
    { u \in Updates : u.command \in {"/start", "/stop", "/generate"} }

\* Commands.__init__ (commands.py:31-40): self.start() has called systemctl
\* start, which succeeded or failed.
InitService ==
    /\ Config \in RotationConfigs
    /\ GenIdle
    /\ ChanIdle /\ StoreIdle /\ MainIdle
    /\ permissions = add_user_to_group(set_telegram_admins(EmptyTable), "3", "manager")
    /\ perm_call = NoCall
    /\ undone = None
    /\ Idle(1)
    /\ running \in BOOLEAN
    /\ knockd = [up |-> running, sequence |-> 0, failed |-> ~running]
    /\ local_seq = << >>
    /\ notified = None

NextService ==
    \/ \E u \in ServiceUpdates : process(u) /\ Daemon /\ ElsewhereService
    \/ GenerateFirst /\ Daemon /\ ElsewhereService
    \/ StopJoin /\ Daemon /\ ElsewhereService
    \/ periodic_sequence_update /\ Daemon /\ ElsewhereService

SpecService == InitService /\ [][NextService]_vars


(***************************************************************************)
(* Properties of the generator and of the filter                           *)
(***************************************************************************)
InRange(v) == Config.first <= v /\ v <= Config.last
Blacklisted(v) == v \in Config.ports_blacklist
Min(S) == CHOOSE m \in S : \A x \in S : m <= x

\* C5: whenever generate_new_sequence returns, the list has exactly num
\* elements, each inside the acceptable range and outside the blacklist,
\* in the random branch and in the seeded one.
C5_ReturnedSequenceAcceptable ==
    gen_pc = "returned" =>
        /\ Len(port_list) = gen_args.num
        /\ \A i \in 1..Len(port_list) :
              InRange(port_list[i]) /\ ~Blacklisted(port_list[i])

\* A seeded call has returned whose first candidate was blacklisted and whose
\* second one was the last port or beyond it.
C5_Witness ==
    /\ gen_pc = "returned"
    /\ SeedGiven(gen_args.seed)
    /\ gen_args.num = 2
    /\ Blacklisted(candidates[1])
    /\ candidates[2] >= Config.last
    /\ port_list # candidates

\* C6: the filter terminates for every candidate whenever the range holds
\* at least one port that is not blacklisted.
C6_FilterTerminates ==
    [](  (gen_pc = "filter" /\ \E v \in Config.first..Config.last : ~Blacklisted(v))
         => <>(gen_pc = "returned") )

\* C7: a call with a provided integer seed (0 included) returns what the
\* previous call with the same arguments returned.
C7_SeededCallsAgree ==
    (gen_pc = "returned" /\ previous # None /\ gen_args.seed # None)
        => port_list = previous[1]

\* What the loop makes of one candidate, on its own.
RECURSIVE Probe(_, _)
Probe(p, fuel) ==
    IF fuel = 0 \/ ~Unacceptable(p) THEN p ELSE Probe(NextCandidate(p), fuel - 1)

\* C8: the filter is a forward linear probe applied to each element on its
\* own: an acceptable candidate is returned unchanged, a candidate in range
\* with an acceptable port at or after it (up to the last port) becomes the
\* smallest such port, and the result at an index depends on the candidate at
\* that index only.
C8_ForwardLinearProbe ==
    gen_pc = "returned" =>
        \A i \in 1..Len(candidates) :
            LET c == candidates[i]
                ahead == { v \in c..Config.last : InRange(v) /\ ~Blacklisted(v) }
            IN  /\ (InRange(c) /\ ahead # {}) => port_list[i] = Min(ahead)
                /\ port_list[i] = Probe(c, 2 * Config.last + 2)
                /\ \A j \in 1..Len(candidates) :
                      candidates[j] = c => port_list[j] = port_list[i]

\* The scenario of the specification: 1005 becomes 1007 next to an acceptable
\* candidate that stays as it was.
C8_Witness ==
    /\ gen_pc = "returned"
    /\ Config.first = ScenarioPorts.first
    /\ candidates = <<1005, 1003>>
    /\ port_list = <<1007, 1003>>

(***************************************************************************)
(* Properties of the permission engine                                     *)
(***************************************************************************)
\* The permissions each group stands for (specification, section 3).
PermissionsOfGroup(g) ==
    CASE g = "guest" -> {}
      [] g = "member" -> {"manage_sequences"}
      [] g = "manager" -> {"manage_sequences", "modify_bot_behaviour"}
      [] g = "admin" -> {"manage_sequences", "modify_bot_behaviour", "admin_access"}
      [] OTHER -> {}

Membership(db, u) == IF u \in DOMAIN db THEN Range(db[u]) ELSE {}

PassesUserLists(u) ==
    /\ Config.telegram_user_whitelist = {} \/ u \in Config.telegram_user_whitelist
    /\ u \notin Config.telegram_user_blacklist

Permission == Range(permission_sets)

\* The lists of needed permissions asked about: every list of at most two
\* entries over the three permissions and "none", and the three together.
NeededLists ==
    LET P == Permission \cup {"none"}
    IN  {<< >>} \cup { <<a>> : a \in P } \cup { <<a, b>> : a \in P, b \in P }
            \cup {permission_sets}

\* C2: is_user_allowed(user, needed) is true exactly when the allow-list is
\* empty or holds the user, the deny-list does not hold the user, and every
\* needed permission is "none" or a permission of one of the groups of the
\* user's persisted membership.
C2_AllowIffListsAndGroups ==
    \A u \in UserIds, needed \in NeededLists :
        is_user_allowed(permissions, u, needed)
            <=> /\ PassesUserLists(u)
                /\ \A i \in 1..Len(needed) :
                      needed[i] \in {"none"} \cup
                          UNION { PermissionsOfGroup(g) : g \in Membership(permissions, u) }

\* A user in two groups after calls on the engine, allowed what the union of
\* the two gives and denied the rest; another user is unknown to the store.
C2_Witness ==
    /\ perm_call.op = "add"
    /\ Membership(permissions, "2") = {"guest", "manager"}
    /\ PassesUserLists("2")
    /\ is_user_allowed(permissions, "2", <<"manage_sequences", "modify_bot_behaviour">>)
    /\ ~is_user_allowed(permissions, "2", <<"admin_access">>)
    /\ "3" \notin DOMAIN permissions

\* C3 as claimed: every user with no group membership is allowed the empty
\* list and "none", and denied each of the three permissions.
C3_NoMembershipAllowedNothingNeeded ==
    \A u \in UserIds :
        list_groups(permissions, u) = << >> =>
            /\ is_user_allowed(permissions, u, << >>)
            /\ is_user_allowed(permissions, u, <<"none">>)
            /\ \A p \in Permission : ~is_user_allowed(permissions, u, <<p>>)

\* C3, amended: a user with no group membership is denied each of the three
\* permissions, and is allowed the empty list and "none" when the allow-list
\* and the deny-list do not exclude the user.
C3_NoMembershipAmended ==
    \A u \in UserIds :
        list_groups(permissions, u) = << >> =>
            /\ PassesUserLists(u) =>
                  /\ is_user_allowed(permissions, u, << >>)
                  /\ is_user_allowed(permissions, u, <<"none">>)
            /\ \A p \in Permission : ~is_user_allowed(permissions, u, <<p>>)

\* A known user whose last group was removed, next to an unknown user, both
\* passing the lists.
C3_Witness ==
    /\ perm_call.op = "remove"
    /\ "2" \in DOMAIN permissions /\ permissions["2"] = << >>
    /\ "3" \notin DOMAIN permissions
    /\ PassesUserLists("2") /\ PassesUserLists("3")
    /\ is_user_allowed(permissions, "2", <<"none">>)
    /\ is_user_allowed(permissions, "3", << >>)

DeniedSome(db, u) == \E p \in Permission : ~is_user_allowed(db, u, <<p>>)

\* After add_user_to_group(u, "admin") on a user denied some permission.
AddedAdmin ==
    /\ perm_call.op = "add" /\ perm_call.group = "admin"
    /\ undone # None
    /\ DeniedSome(undone[1].db, perm_call.user)

\* After add_user_to_group(u, "admin") then remove_user_from_group(u, "admin")
\* on a user denied some permission before the two.
AddedThenRemovedAdmin ==
    /\ perm_call.op = "remove" /\ perm_call.group = "admin"
    /\ undone # None /\ undone[1].removed
    /\ DeniedSome(undone[1].db, perm_call.user)

\* Every allow decision on one permission is what it was before the add.
DecisionsRestored ==
    \A p \in Permission :
        is_user_allowed(permissions, perm_call.user, <<p>>)
            <=> is_user_allowed(undone[1].db, perm_call.user, <<p>>)

\* C4 as claimed: adding a user who was denied some permission to "admin"
\* makes the three permissions together allowed, and removing the user from
\* "admin" right after restores every earlier decision.
C4_AdminAddThenRemove ==
    /\ AddedAdmin => is_user_allowed(permissions, perm_call.user, permission_sets)
    /\ AddedThenRemovedAdmin => DecisionsRestored

\* C4, amended: the same for a user whom the allow-list and the deny-list do
\* not exclude; for an excluded user the add grants nothing, and the remove
\* still leaves every decision as it was before the add.
C4_AdminAddThenRemoveAmended ==
    /\ (AddedAdmin /\ PassesUserLists(perm_call.user))
          => is_user_allowed(permissions, perm_call.user, permission_sets)
    /\ AddedThenRemovedAdmin => DecisionsRestored

\* A member was made admin and then removed from admin: manage_sequences is
\* allowed again and the other two are denied again.
C4_Witness ==
    /\ AddedThenRemovedAdmin
    /\ PassesUserLists(perm_call.user)
    /\ list_groups(undone[1].db, perm_call.user) = <<"member">>
    /\ permissions[perm_call.user] = <<"member">>
    /\ is_user_allowed(permissions, perm_call.user, <<"manage_sequences">>)
    /\ ~is_user_allowed(permissions, perm_call.user, <<"admin_access">>)


(***************************************************************************)
(* Properties of the dispatch and of the periodic rotation                 *)
(***************************************************************************)
\* The rotation threads that are alive and not told to stop: each of them
\* goes on making, applying and sending sequences.
ActiveThreads == { t \in Threads : is_alive(t) /\ ~stop_event }

\* C1: for every update whose handler is reached (the count of arguments is
\* right) while is_user_allowed(caller, permissions the handler requires) is
\* false on the table found, the reply is "Action forbidden ; insufficient
\* rights." and the body did not run: the permissions table, the running
\* flag, the rotation thread, its event and its list are what they were, and
\* the channel is as registration left it.
C1_AuthorizationGuard ==
    \A u \in Updates :
        ( /\ handled # None
          /\ handled[1].update = u
          /\ ArgsValid(u)
          /\ ~is_user_allowed(handled[1].found.permissions, u.from,
                              RequiredPermissions(handler_of(u.command))) )
        => /\ reply = Some([chat |-> u.chat, text |-> Forbidden])
           /\ main_pc = "poll"
           /\ handled[1].found =
                 [permissions |-> permissions,
                  channels |-> handled[1].found.channels,
                  running |-> running,
                  sequence_thread |-> sequence_thread, stop_event |-> stop_event,
                  roster |-> roster, threads |-> threads]
           /\ channels = chan_add(handled[1].found.channels, u.chat)

\* A manager who is no admin was refused while a rotation is running.
C1_Witness ==
    /\ reply = Some([chat |-> Chat, text |-> Forbidden])
    /\ commands_user_id = "3"
    /\ "manager" \in Range(list_groups(permissions, "3"))
    /\ thread_is_alive
    /\ roster = <<"3">>

\* C9: in every reachable state at most one rotation thread is alive and
\* able to make, apply and send a sequence.
C9_AtMostOneRotationThread == Cardinality(ActiveThreads) <= 1

\* C10: when two /generate commands of two distinct allowed users were
\* handled one after the other, the first one finding no rotation running,
\* there is exactly one active rotation thread and the list holds both users.
C10_TwoRequestsOneThread ==
    (Len(requests) = 2 /\ requests[1] # requests[2] /\ main_pc = "poll")
        => (Cardinality(ActiveThreads) = 1 /\ roster = requests)


\* What the step just taken found, for the update u it handled.
Handling(u) == handled # None /\ handled[1].update = u
WasFound == handled[1].found

\* The caller of u was allowed what the handler of u requires, on the table
\* that process() found.
WasAllowed(u) ==
    is_user_allowed(WasFound.permissions, u.from,
                    RequiredPermissions(handler_of(u.command)))

\* The main thread has just returned from the handler of u.
Returned(u) == Handling(u) /\ actor = 0 /\ main_pc = "poll"

\* The users the step just taken sent a message to.
Notified == { effects[i][2] : i \in { j \in 1..Len(effects) : effects[j][1] = "send_message" } }

\* C11: when /stop has returned, no thread is registered and the list is
\* empty; a thread that a /stop has cancelled (it is no longer the registered
\* one) makes no sequence, writes no configuration, restarts nothing and
\* sends nothing; and no thread sends a message while the event is set.
C11_CancelledTaskSilent ==
    /\ \A u \in Updates :
         (Returned(u) /\ u.command = "/stop" /\ ArgsValid(u) /\ WasAllowed(u))
            => (sequence_thread = None /\ roster = << >>)
    /\ \A t \in Threads :
         (actor = t /\ effects # << >>)
            => (sequence_thread = Some(t) /\ (Notified # {} => ~stop_event))


\* The rotation was not running when process() was called: no thread was
\* registered and alive.
WasInactive ==
    ~(/\ WasFound.sequence_thread # None
      /\ WasFound.threads[WasFound.sequence_thread[1]].pc # "dead")

\* The threads alive when process() was called.
WasAlive == { t \in Threads : WasFound.threads[t].pc # "dead" }

\* The places of effects where a sequence is taken or made.
Sequences ==
    { i \in 1..Len(effects) : effects[i] \in {<<"open_sequence">>, <<"generate_new_sequence">>} }

\* C12: while an allowed caller's /generate that found the rotation not
\* running is handled, the list is exactly [caller], the event is clear and
\* exactly one thread has been started, which is the registered one; when
\* the handler returns it has taken one sequence (the configured one if
\* use_open_sequence, a generated one otherwise), written the configuration,
\* then restarted the service, then sent one message, to the caller, and the
\* reply is the confirmation of the start.
C12_RequestWhileInactive ==
    \A u \in Updates :
        ( /\ Handling(u) /\ u.command = "/generate" /\ ArgsValid(u) /\ WasAllowed(u)
          /\ WasInactive )
        => /\ roster = <<u.from>>
           /\ ~stop_event
           /\ sequence_thread # None
           /\ sequence_thread[1] \notin WasAlive
           /\ { t \in Threads : is_alive(t) } = WasAlive \cup {sequence_thread[1]}
           /\ main_pc \in {"generate", "poll"}
           /\ (main_pc = "generate" /\ actor = 0) => (effects = << >> /\ reply = None)
           /\ (main_pc = "poll") =>
                /\ actor = 0
                /\ reply = Some([chat |-> u.chat, text |->
                      <<"Started periodic port sequence generation. Use /stop to stop for everyone.">>])
                /\ Sequences = {1}
                /\ effects[1] = IF Config.use_open_sequence THEN <<"open_sequence">>
                                ELSE <<"generate_new_sequence">>
                /\ effects[2] = <<"configure_knockd">>
                /\ effects[3][1] = "stop_service"
                /\ effects[Len(effects) - 1][1] = "restart_service"
                /\ effects[Len(effects)] = <<"send_message", u.from>>
                /\ { i \in 1..Len(effects) : effects[i][1] = "send_message" } = {Len(effects)}

\* User 3 started the rotation with the configured sequence while a thread
\* that /stop had forgotten was still alive.
C12_Witness ==
    /\ Returned([from |-> "3", chat |-> Chat, command |-> "/generate", args |-> << >>])
    /\ WasInactive
    /\ WasAlive # {}
    /\ Config.use_open_sequence
    /\ effects[Len(effects)] = <<"send_message", "3">>


\* What process() found with the list replaced by r.
WithRoster(r) == [WasFound EXCEPT !.roster = r]

\* C13: when an allowed caller's /generate that found the rotation running
\* returns, nothing was made, written, restarted or sent; if the caller was
\* in the list, the list, the threads, the event and the running flag are
\* what they were and the reply is "You are already receiving ..."; if not,
\* the caller is appended to the list, the rest is what it was and the reply
\* gives the new size of the list.
C13_RequestWhileActive ==
    \A u \in Updates :
        ( /\ Returned(u) /\ u.command = "/generate" /\ ArgsValid(u) /\ WasAllowed(u)
          /\ ~WasInactive )
        => /\ effects = << >>
           /\ channels = chan_add(WasFound.channels, u.chat)
           /\ IF \E i \in 1..Len(WasFound.roster) : WasFound.roster[i] = u.from
              THEN /\ [Found EXCEPT !.channels = WasFound.channels] = WasFound
                   /\ reply = Some([chat |-> u.chat, text |->
                         <<"You are already receiving periodic sequences. Use /stop to stop for everyone.">>])
              ELSE /\ [Found EXCEPT !.channels = WasFound.channels]
                         = WithRoster(WasFound.roster \o <<u.from>>)
                   /\ reply = Some([chat |-> u.chat, text |->
                         <<"Added you to the sequence generation list. Total users:",
                           ToString(Len(WasFound.roster) + 1)>>])

\* User 3 has asked again while in the list, after user 2.
C13_Witness ==
    /\ Returned([from |-> "3", chat |-> Chat, command |-> "/generate", args |-> << >>])
    /\ ~WasInactive
    /\ WasFound.roster = <<"2", "3">>
    /\ roster = <<"2", "3">>


\* C14: each step of a rotation thread that makes a sequence makes exactly
\* one, writes the configuration and restarts the service; and every user in
\* the list of a running rotation is eventually sent a message by a rotation
\* thread, unless the rotation is cancelled first.
C14_SubscribersReceiveRotations ==
    /\ [](\A t \in Threads :
            (actor = t /\ Sequences # {})
               => /\ Sequences = {1}
                  /\ effects[2] = <<"configure_knockd">>
                  /\ effects[3][1] = "stop_service"
                  /\ Notified = {})
    /\ \A user \in Senders :
          (subscribed(user) /\ thread_is_alive /\ ~stop_event)
             ~> ((actor # 0 /\ user \in Notified) \/ stop_event)


\* The reply of the step just taken is this text, sent to the chat of u.
Replied(u, text) == reply = Some([chat |-> u.chat, text |-> text])

\* C15: the running flag is a boolean; when an allowed /start returns, if
\* the flag was unset one start of the service was called and, if that call
\* succeeded, the flag is set, and if the flag was set nothing was called,
\* the flag is set and the reply is "Knockd already running."; when an
\* allowed /stop returns, if the flag was set one stop of the service was
\* called and, if it succeeded, the flag is unset, and if the flag was unset
\* nothing was called, the flag is unset and the reply is "Knockd already
\* stopped. ...".
C15_ServiceStateMachine ==
    /\ running \in BOOLEAN
    /\ \A u \in Updates :
         (Returned(u) /\ ArgsValid(u) /\ WasAllowed(u) /\ u.command = "/start")
            => IF WasFound.running
               THEN effects = << >> /\ running /\ Replied(u, <<"Knockd already running.">>)
               ELSE /\ Len(effects) = 1
                    /\ effects[1][1] = "start_service"
                    /\ effects[1][2] = "True" => (running /\ Replied(u, <<"Started knockd.">>))
    /\ \A u \in Updates :
         (Returned(u) /\ ArgsValid(u) /\ WasAllowed(u) /\ u.command = "/stop")
            => IF WasFound.running
               THEN /\ Len(effects) = 1
                    /\ effects[1][1] = "stop_service"
                    /\ effects[1][2] = "True" =>
                          (~running /\ Replied(u, <<"Stopped knockd and periodic sequence generation.">>))
               ELSE /\ effects = << >>
                    /\ ~running
                    /\ Replied(u, <<"Knockd already stopped. Periodic sequence generation (if any) also stopped.">>)

\* A /stop found the service stopped while a rotation was running.
C15_Witness ==
    /\ Returned([from |-> "2", chat |-> Chat, command |-> "/stop", args |-> << >>])
    /\ ~WasFound.running
    /\ ~WasInactive
    /\ effects = << >>


\* C16: every restart_service calls stop_service and then start_service,
\* also when the stop failed, and it returns False exactly when one of the
\* two calls returned False.
C16_RestartAttemptsBoth ==
    \A i \in 1..Len(effects) :
        effects[i][1] = "restart_service"
           => /\ effects[i - 2][1] = "stop_service"
              /\ effects[i - 1][1] = "start_service"
              /\ effects[i][2] = "False"
                    <=> (effects[i - 2][2] = "False" \/ effects[i - 1][2] = "False")

\* The texts that tell of a failed call of the service.
FailureTexts ==
    { <<"Could not start knockd ; unknown error.">>,
      <<"Could not stop knockd ; unknown error.">> }

\* The places of effects where a start or a stop of the service failed.
FailedCalls ==
    { i \in 1..Len(effects) :
        effects[i] \in {<<"stop_service", "False">>, <<"start_service", "False">>} }

\* C17: when a start or a stop of the service failed in a step of the main
\* thread handling /start, /stop or /generate, the reply of the step is one
\* of the texts that tell of the failure, no notification of a sequence is
\* sent by the step, and the call was made once.
C17_ServiceFailureSurfaced ==
    (actor = 0 /\ main_pc = "poll" /\ FailedCalls # {})
        => /\ reply # None
           /\ reply[1].text \in FailureTexts
           /\ Notified = {}
           /\ Cardinality(FailedCalls) = 1


\* C18: when the number of tokens after the command is not the number the
\* command expects, the reply is "Too many arguments" or "Too few arguments"
\* with the expected and the found numbers, whoever the caller is, and the
\* handler did not run: permissions, running flag and rotation are what they
\* were and nothing was done outside.
C18_ArgumentCountFirst ==
    \A u \in Updates :
        (Handling(u) /\ Len(u.args) # num_exp_args(u.command))
           => /\ Replied(u, <<IF Len(u.args) > num_exp_args(u.command)
                              THEN "Too many arguments" ELSE "Too few arguments",
                              ToString(num_exp_args(u.command)), ToString(Len(u.args))>>)
              /\ main_pc = "poll"
              /\ effects = << >>
              /\ [Found EXCEPT !.channels = WasFound.channels] = WasFound

\* User 3, in no group, sent /add_perm with three arguments.
C18_Witness ==
    /\ Handling([from |-> "3", chat |-> Chat, command |-> "/add_perm",
                 args |-> <<"3", "manager", "extra">>])
    /\ list_groups(permissions, "3") = << >>
    /\ ~is_user_allowed(permissions, "3", RequiredPermissions("add_perm"))

\* C19: when the number of arguments is wrong, every table and flag is what
\* process() found: permissions, channels, running flag and rotation.
C19_ArgumentMismatchMutatesNothing ==
    \A u \in Updates :
        (Handling(u) /\ Len(u.args) # num_exp_args(u.command)) => Found = WasFound

\* C20: an update whose command is not in the table gets no reply.
C20_UnknownCommandSilent ==
    \A u \in Updates :
        (Handling(u) /\ handler_of(u.command) = "invalid") => reply = None

(***************************************************************************)
(* Properties of the permissions table                                     *)
(***************************************************************************)
\* The call made last, on the table it found.
Called_add == perm_call.op = "add"
Called_remove == perm_call.op = "remove"
GroupsBefore == list_groups(perm_call.before, perm_call.user)
GroupsAfter == list_groups(permissions, perm_call.user)
Without(groups, group) == SelectSeq(groups, LAMBDA g : g # group)

\* C22: in every reachable state of the permissions table, after the
\* bootstrap and any calls of add_user_to_group and remove_user_from_group,
\* the list of each user holds no group name twice and only the names guest,
\* member, manager and admin.
C22_GroupListsWellFormed ==
    \A u \in DOMAIN permissions :
        /\ \A i, j \in 1..Len(permissions[u]) :
              permissions[u][i] = permissions[u][j] => i = j
        /\ Range(permissions[u]) \subseteq {"guest", "member", "manager", "admin"}

\* A user with two groups was added to a group it was already in.
C22_Witness ==
    /\ Called_add
    /\ perm_call.group \in Range(GroupsBefore)
    /\ Len(GroupsAfter) >= 2

\* C23: add_user_to_group and remove_user_from_group called with a name
\* that is none of guest, member, manager, admin leave the whole table as
\* they found it (no entry created, no membership added or removed) and
\* raise nothing.
C23_InvalidGroupLeavesTable ==
    ((Called_add \/ Called_remove)
        /\ perm_call.group \notin {"guest", "member", "manager", "admin"})
    => (permissions = perm_call.before /\ ~perm_call.raised)

\* A user unknown to the table was added to a group that does not exist.
C23_Witness ==
    /\ Called_add
    /\ perm_call.group = "root"
    /\ ~key_exists(permissions, perm_call.user)

\* A known user was removed from a group that does not exist.
C23_WitnessRemove ==
    /\ Called_remove
    /\ perm_call.group = "root"
    /\ GroupsAfter # << >>

\* C24: remove_user_from_group with a valid group completes without error
\* for a member of the group, for a known user who is not in it and for a
\* user unknown to the table; afterwards the user is not in the group and
\* its other memberships are what they were.
C24_RemoveCompletes ==
    (Called_remove /\ is_group_valid(perm_call.group))
    => /\ ~perm_call.raised
       /\ perm_call.group \notin Range(GroupsAfter)
       /\ GroupsAfter = Without(GroupsBefore, perm_call.group)

\* C25: add_user_to_group is idempotent and so is the bootstrap: after the
\* bootstrap "1" and every configured admin are in admin, running it again
\* leaves the table as it is, and no user lost a membership to it.
C25_AddAndBootstrapIdempotent ==
    /\ Called_add =>
          add_user_to_group(permissions, perm_call.user, perm_call.group) = permissions
    /\ perm_call.op \in {"none", "bootstrap"} =>
          /\ \A a \in {"1"} \cup Config.telegram_user_admin_list :
                "admin" \in Range(list_groups(permissions, a))
          /\ set_telegram_admins(permissions) = permissions
          /\ \A u \in DOMAIN perm_call.before :
                /\ key_exists(permissions, u)
                /\ SelectSeq(permissions[u], LAMBDA g : g \in Range(perm_call.before[u]))
                      = perm_call.before[u]

\* The process started again after a configured admin, who had become a
\* manager too, was taken out of admin: the bootstrap put it back and kept
\* the other group.
C25_Witness ==
    /\ perm_call.op = "bootstrap"
    /\ key_exists(perm_call.before, "2")
    /\ perm_call.before["2"] # << >>
    /\ "admin" \notin Range(perm_call.before["2"])
    /\ "admin" \in Range(list_groups(permissions, "2"))

\* A user was added twice in a row to the same group.
C25_WitnessAdd ==
    /\ Called_add
    /\ perm_call.before = permissions
    /\ perm_call.group \in Range(GroupsAfter)

(***************************************************************************)
(* Properties of the commands that change groups and of the command table  *)
(***************************************************************************)
\* The update u asks for a change of membership naming a group that does
\* not exist, with the right count of arguments, and its caller is allowed.
NamesInvalidGroup(u) ==
    /\ u.command \in {"/add_perm", "/remove_perm"}
    /\ ArgsValid(u)
    /\ ~is_group_valid(u.args[2])
    /\ WasAllowed(u)

SuccessTexts ==
    {"User successfully added to group !", "User successfully removed from group !"}

\* C29: /add_perm u g and /remove_perm u g naming a group outside the valid
\* set leave the permissions table unchanged and are answered as a success is.
C29_InvalidGroupSilent ==
    \A u \in Updates :
        (Returned(u) /\ NamesInvalidGroup(u))
        => /\ permissions = WasFound.permissions
           /\ reply # None
           /\ reply[1].text[1] \in SuccessTexts

\* C29 as the code has it: the permissions table is unchanged, nothing else
\* changes but the registration of the chat, and the reply is "Group g is
\* invalid !", which no success is answered with.
C29_InvalidGroupReported ==
    \A u \in Updates :
        (Returned(u) /\ NamesInvalidGroup(u))
        => /\ permissions = WasFound.permissions
           /\ Found = [WasFound EXCEPT !.channels = chan_add(@, u.chat)]
           /\ reply = Some([chat |-> u.chat, text |-> <<"Group is invalid !", u.args[2]>>])
           /\ reply[1].text[1] \notin SuccessTexts

\* An admin asked to take user 3 out of a group that does not exist.
C29_Witness ==
    /\ \E u \in Updates :
          /\ Returned(u)
          /\ NamesInvalidGroup(u)
          /\ u.command = "/remove_perm"
          /\ u.from = "2"
    /\ reply # None

\* The commands the bot is documented to understand.
DocumentedCommands ==
    {"/generate", "/start", "/stop", "/forget", "/shutdown", "/list_groups_members",
     "/add_perm", "/remove_perm", "/help", "/status", "/print_config",
     "/print_broadcast_list"}

\* C30: every documented command resolves to its own handler, never to
\* invalid; for an admin /status is answered "Running" when the running flag
\* is set and "Stopped" otherwise, and /print_broadcast_list is answered with
\* the active channels.
C30_DocumentedCommandsDispatched ==
    \A u \in Updates :
        ( /\ Returned(u)
          /\ u.command \in DocumentedCommands
          /\ u.args = << >>
          /\ is_user_allowed(WasFound.permissions, u.from, <<"admin_access">>) )
        => /\ handler_of(u.command) # "invalid"
           /\ u.command = "/status" =>
                reply = Message(u.chat, IF running THEN <<"Running">> ELSE <<"Stopped">>)
           /\ u.command = "/print_broadcast_list" => reply # None

(***************************************************************************)
(* Properties of the channels table and of the store                       *)
(***************************************************************************)
\* C26: after any calls of add and disable, a chat that add was called for
\* at least once is in the table, and is active exactly when the last call
\* naming it was add; a chat add was never called for is not in the table,
\* whatever disable was called for; no call takes an entry out of the
\* table; list_active_channels returns exactly the chats whose flag is true
\* and changes nothing.
C26_ChannelLifecycle ==
    /\ \A c \in ChatIds :
          IF chan_hist[c].registered
          THEN /\ c \in DOMAIN channels
               /\ channels[c] = TRUE <=> chan_hist[c].last = "add"
          ELSE c \notin DOMAIN channels
    /\ DOMAIN chan_call.before \subseteq DOMAIN channels
    /\ chan_call.op = "list" =>
          /\ channels = chan_call.before
          /\ chan_call.result = { c \in ChatIds : c \in DOMAIN channels /\ channels[c] }

\* A chat that had been disabled was registered again and is active, while
\* disable was called for a chat that never wrote.
C26_Witness ==
    /\ chan_call.op = "add"
    /\ chan_call.chat \in DOMAIN chan_call.before
    /\ chan_call.before[chan_call.chat] = FALSE
    /\ channels[chan_call.chat] = TRUE
    /\ \E c \in ChatIds : ~chan_hist[c].registered /\ chan_hist[c].last = "disable"

\* list_active_channels was called with an active and a disabled chat.
C26_WitnessList ==
    /\ chan_call.op = "list"
    /\ chan_call.result # {}
    /\ chan_call.result # DOMAIN channels

\* C27: opening a store whose columns exist never replaces what they hold,
\* and after any calls of insert_dict, update and insert_list the process
\* that opens the file again reads what the columns held after the last
\* call; every call writes the whole container of its column, leaves the
\* other columns alone, and has flushed when it returns.
C27_StoreDurable ==
    /\ unsynced = NoColumns
    /\ DOMAIN disk = { Columns[i].name : i \in 1..Len(Columns) }
    /\ (store_call.op = "open" /\ store_call.before # NoColumns) =>
          disk = store_call.before
    /\ store_call.op \in {"insert_dict", "update"} =>
          /\ disk["entries"] = [k \in DOMAIN store_call.before["entries"] \cup {store_call.key} |->
                                  IF k = store_call.key THEN store_call.value
                                  ELSE store_call.before["entries"][k]]
          /\ disk["items"] = store_call.before["items"]
    /\ store_call.op = "insert_list" =>
          /\ disk["items"] = store_call.before["items"] \o <<store_call.value>>
          /\ disk["entries"] = store_call.before["entries"]

\* The file was opened again with an entry and an item in it.
C27_Witness ==
    /\ store_call.op = "open"
    /\ "entries" \in DOMAIN store_call.before
    /\ DOMAIN store_call.before["entries"] # {}
    /\ Len(store_call.before["items"]) > 0
    /\ disk = store_call.before

(***************************************************************************)
(* Properties of the main loop                                             *)
(***************************************************************************)
\* The main thread is not inside a handler, and /shutdown has not ended
\* the loop.
BetweenUpdates == main_pc \notin {"generate", "join", "exited"}

\* C28: the updates of a batch are handled in the order they arrived, after
\* each of them (given to process, or skipped) the cursor is its update_id
\* plus one, the cursor never decreases, and no update is given to process
\* twice.
C28_CursorFollowsUpdates ==
    /\ [](/\ \A i, j \in 1..Len(delivered) : i < j => delivered[i] < delivered[j]
          /\ (seen > 0 /\ BetweenUpdates) => offset = seen + 1)
    /\ [][offset' >= offset]_vars

\* The step just taken called Utils.stop_service.
StopAttempted == \E i \in 1..Len(effects) : effects[i][1] = "stop_service"

\* C21: an authorized /shutdown cancels the rotation, attempts to stop the
\* daemon and ends the main loop whether or not the stop succeeded, without
\* a reply, and no later update of the batch or of a later poll is
\* processed; an unauthorized /shutdown is answered with the forbidden
\* message, changes nothing, and the loop goes on.
C21_ShutdownEndsLoop ==
    /\ \A u \in Updates :
          ( /\ Handling(u)
            /\ actor = 0
            /\ u.command = "/shutdown"
            /\ ArgsValid(u)
            /\ main_pc # "join" )
          => IF WasAllowed(u)
             THEN /\ main_pc = "exited"
                  /\ reply = None
                  /\ \A t \in Threads : ~is_alive(t)
                  /\ StopAttempted
             ELSE /\ reply = Some([chat |-> u.chat, text |-> Forbidden])
                  /\ main_pc = "poll"
                  /\ Found = WasFound
    /\ main_pc = "exited" =>
          /\ handled # None
          /\ handled[1].update.command = "/shutdown"
          /\ delivered # << >>
          /\ delivered[Len(delivered)] = seen

(***************************************************************************)
(* Monotonicity of the permission test                                     *)
(***************************************************************************)

\* The static permission sets of the groups are nested.
Nested ==
    LET P(g) == UNION { Range(permission_groups[i].perms) :
                          i \in { j \in DOMAIN permission_groups :
                                     permission_groups[j].group = g } }
    IN  P("guest") \subseteq P("member")
          /\ P("member") \subseteq P("manager")
          /\ P("manager") \subseteq P("admin")

\* C39: the permission sets of guest, member, manager and admin are nested;
\* for every user and every list of needed permissions, a test that passed
\* before add_user_to_group with a valid group passes after it, and a test
\* that failed before remove_user_from_group with a valid group fails after
\* it.
C39_PermissionsMonotone ==
    /\ Nested
    /\ \A u \in DOMAIN permissions \cup DOMAIN perm_call.before \cup {perm_call.user} :
         \A needed \in NeededLists :
            /\ (Called_add /\ is_group_valid(perm_call.group)
                  /\ is_user_allowed(perm_call.before, u, needed))
               => is_user_allowed(permissions, u, needed)
            /\ (Called_remove /\ is_group_valid(perm_call.group)
                  /\ ~is_user_allowed(perm_call.before, u, needed))
               => ~is_user_allowed(permissions, u, needed)

\* An administrator was added to the group guest and still passes the test
\* for admin_access.
C39_Witness ==
    /\ Called_add
    /\ perm_call.group = "guest"
    /\ "admin" \in Range(GroupsBefore)
    /\ "guest" \notin Range(GroupsBefore)
    /\ is_user_allowed(perm_call.before, perm_call.user, <<"admin_access">>)
    /\ is_user_allowed(permissions, perm_call.user, <<"admin_access">>)

\* A manager was removed from the group manager and no longer passes the
\* test for modify_bot_behaviour.
C39_WitnessRemove ==
    /\ Called_remove
    /\ perm_call.group = "manager"
    /\ ~perm_call.raised
    /\ is_user_allowed(perm_call.before, perm_call.user, <<"modify_bot_behaviour">>)
    /\ ~is_user_allowed(permissions, perm_call.user, <<"modify_bot_behaviour">>)

(***************************************************************************)
(* Properties of the list of the rotation and of the threads reading it    *)
(***************************************************************************)

C36_WitnessStop ==
    \E u \in Updates :
        /\ Returned(u)
        /\ u.command = "/stop"
        /\ WasAllowed(u)
        /\ Len(WasFound.roster) = 2
        /\ roster = << >>

\* C37: when an allowed /stop whose stop of the service failed returns, the
\* running flag is set, the reply is "Could not stop knockd ; unknown
\* error.", and the registered thread, the threads, the list and the event
\* are what the /stop found.
C37_FailedStopChangesNothing ==
    \A u \in Updates :
        ( /\ Returned(u)
          /\ u.command = "/stop"
          /\ ArgsValid(u)
          /\ WasAllowed(u)
          /\ effects = <<<<"stop_service", "False">>>> )
        => /\ running
           /\ Replied(u, <<"Could not stop knockd ; unknown error.">>)
           /\ sequence_thread = WasFound.sequence_thread
           /\ roster = WasFound.roster
           /\ stop_event = WasFound.stop_event

\* C31: the main thread never appends to the list of the rotation, and never
\* binds the attribute to another list, while a thread is in its for loop
\* over that list (from the call of process() to the return of the handler,
\* the join of /stop included): the users a round notifies are the list as
\* it was when the round began.
C31_RosterMutuallyExcluded ==
    \A t \in Threads :
        ( /\ handled # None
          /\ actor = 0
          /\ WasFound.threads[t].pc = "send"
          /\ WasFound.threads[t].live
          /\ threads[t].pc = "send" )
        => roster = WasFound.roster

(***************************************************************************)
(* The chat of a command in the table of channels                          *)
(***************************************************************************)

\* C38: once process() has been called on a command written in a chat,
\* whatever the command, the count of its arguments and the permissions of
\* its caller, the chat is in the table of channels and is active, except
\* after /forget with no argument from a caller allowed
\* modify_bot_behaviour, when it is in the table and inactive; the command
\* that follows a /forget makes the chat active again.
C38_ChatActiveAfterCommand ==
    \A u \in Updates :
        Handling(u)
        => /\ key_exists(channels, u.chat)
           /\ channels[u.chat] =
                ~( /\ u.command = "/forget"
                   /\ ArgsValid(u)
                   /\ is_user_allowed(WasFound.permissions, u.from,
                                      <<"modify_bot_behaviour">>) )

\* A command that is not /forget was handled in a chat that was inactive.
C38_Witness ==
    \E u \in Updates :
        /\ Handling(u)
        /\ u.command # "/forget"
        /\ key_exists(WasFound.channels, u.chat)
        /\ ~WasFound.channels[u.chat]
        /\ channels[u.chat]

\* A /forget of manager 3 made inactive a chat that was active.
C38_WitnessForget ==
    \E u \in Updates :
        /\ Handling(u)
        /\ u.command = "/forget"
        /\ u.from = "3"
        /\ key_exists(WasFound.channels, u.chat)
        /\ WasFound.channels[u.chat]
        /\ ~channels[u.chat]

(***************************************************************************)
(* Who can change the permissions table                                    *)
(***************************************************************************)

\* C34: a step changes the permissions table only if it is process() called
\* on /add_perm or /remove_perm whose caller, on the table as it was before
\* the step, is allowed both modify_bot_behaviour and admin_access (is in
\* the group admin and passes the allow-list and the deny-list); a caller
\* who is only a guest, a member or a manager changes no membership.
C34_NoPrivilegeEscalation ==
    [][ permissions' # permissions
          => /\ handled' # None
             /\ handled'[1].found.permissions = permissions
             /\ handled'[1].update.command \in {"/add_perm", "/remove_perm"}
             /\ is_user_allowed(permissions, handled'[1].update.from,
                                <<"modify_bot_behaviour", "admin_access">>)
             /\ "admin" \in Range(list_groups(permissions, handled'[1].update.from)) ]_vars

\* Manager 3, who is not an admin, asked to be taken out of the managers and
\* the table was left as it was.
C34_Witness ==
    \E u \in Updates :
        /\ Returned(u)
        /\ u.command = "/remove_perm"
        /\ u.args = <<"3", "manager">>
        /\ u.from = "3"
        /\ list_groups(WasFound.permissions, "3") = <<"manager">>
        /\ is_user_allowed(WasFound.permissions, "3", <<"modify_bot_behaviour">>)
        /\ permissions = WasFound.permissions

\* Admin 2 changed the table with /add_perm.
C34_WitnessAdmin ==
    \E u \in Updates :
        /\ Returned(u)
        /\ u.command = "/add_perm"
        /\ u.from = "2"
        /\ permissions # WasFound.permissions

(***************************************************************************)
(* Updates that lack a field                                               *)
(***************************************************************************)

\* C32: an update without a message, without a text or without a date is
\* skipped: the loop does not end on it, it is not given to process(), and
\* the cursor is moved past it.
C32_MalformedUpdatesSkipped ==
    \A i \in 1..Len(inbox) :
        (inbox[i].update_id = seen /\ inbox[i].missing # "nothing")
        => /\ main_pc # "crashed"
           /\ seen \notin Range(delivered)
           /\ offset = seen + 1

(***************************************************************************)
(* The daemon, the running flag and the sequences told to the users        *)
(***************************************************************************)

\* C33: as long as every call of systemctl made by /start, /stop, /generate
\* and the wake-ups of the rotation has succeeded, the running flag is set
\* exactly when the daemon is up.
C33_RunningTracksDaemon == ~knockd.failed => (running = knockd.up)

\* A step of the rotation is in progress: the first sequence of /generate
\* is being made, or a thread is in its for loop.
RotationStepInProgress ==
    \/ main_pc = "generate"
    \/ \E t \in Threads : threads[t].pc = "send"

\* The places of effects where the file is written, the service restarted,
\* a message sent.
Writes == { i \in 1..Len(effects) : effects[i] = <<"configure_knockd">> }
Restarts == { i \in 1..Len(effects) : effects[i][1] = "restart_service" }
Sends == { i \in 1..Len(effects) : effects[i][1] = "send_message" }

\* C35: a "New sequence: S" message is sent only after S was written to the
\* configuration of the daemon and a restart of the daemon was tried, the
\* write coming before the restart; and whenever no step of the rotation is
\* in progress, the sequence in the configuration of the daemon is the one
\* of the last such message sent.
C35_ApplyBeforeNotify ==
    /\ \A w \in Writes : \E r \in Restarts : w < r
    /\ \A r \in Restarts : \E w \in Writes : w < r
    /\ \A m \in Sends :
          IF actor = 0
          THEN \E r \in Restarts : r < m
          ELSE Writes = {} /\ notified # None
    /\ (notified # None /\ ~RotationStepInProgress) => knockd.sequence = notified[1]

====
